---- MODULE Spec2Model ----
(***************************************************************************)
(* go365: paginated list retrieval of the Microsoft Graph client library   *)
(* (libgo365).  A string is a finite sequence of characters; a character   *)
(* is a one-letter string, or a word such as "skiptoken" that stands for   *)
(* a run of unreserved letters and is never split by the parsers below.    *)
(***************************************************************************)
EXTENDS Integers, Sequences, FiniteSets, TLC

VARIABLES
    pc,         \* where the call in progress is: "idle", "sent", "served", "done"
    op,         \* the operation in progress
    opts,       \* its options
    request,    \* the HTTP request under way
    reply,      \* the server's last answer
    response,   \* what the operation returned
    calendars,  \* all-calendars mode: the calendars ListCalendars returned
    calIdx,     \* all-calendars mode: the calendar being queried (0: none yet)
    allEvents,  \* all-calendars mode: the events collected so far
    received,   \* all-calendars mode: the answers of the calendars queried so far
    nextLink,   \* the argument of ExtractPageToken
    pageToken,  \* the result of ExtractPageToken
    requests,   \* the number of HTTP requests the call in progress has issued
    environ,    \* the process environment: PATH and the directories it names
    args,       \* os.Args[1:]
    configFile, \* the configuration file on disk
    stdout,     \* what has been written to the output
    server,     \* the pages of messages the server holds
    agent,      \* the paging script: its token and the pages it has fetched
    batch       \* calendar respond: the selected events and the calls made so far

vars == <<pc, op, opts, request, reply, response, calendars, calIdx, allEvents, received,
          nextLink, pageToken, requests, environ, args, configFile, stdout, server,
          agent, batch>>

\* The state of the command line and the mailbox of the server, which the
\* library never touches.
cli == <<environ, args, configFile, stdout, server, agent, batch>>

aggr == <<calendars, calIdx, allEvents, received>>

(***************************************************************************)
(* Bounds of the model.                                                    *)
(***************************************************************************)
MaxItems == 2
MaxTokenLen == 2
MaxValLen == 3
MaxPairs == 3
MaxCals == 3
MaxCalItems == 1

(***************************************************************************)
(* Characters and strings.                                                 *)
(***************************************************************************)
EmptyStr == <<>>

Digits == <<"0", "1", "2", "3", "4", "5", "6", "7", "8", "9">>

HexUpper == <<"0", "1", "2", "3", "4", "5", "6", "7", "8", "9", "A", "B", "C", "D", "E", "F">>

HexLower == <<"0", "1", "2", "3", "4", "5", "6", "7", "8", "9", "a", "b", "c", "d", "e", "f">>

IsDigit(c) == \E i \in 1..10 : Digits[i] = c

DigitVal(c) == (CHOOSE i \in 1..10 : Digits[i] = c) - 1

ishex(c) == \E i \in 1..16 : HexUpper[i] = c \/ HexLower[i] = c

unhex(c) == (CHOOSE i \in 1..16 : HexUpper[i] = c \/ HexLower[i] = c) - 1

\* The characters of the model that are not unreserved letters, with their
\* ASCII codes.
Codes == <<
    <<" ", 32>>, <<"$", 36>>, <<"%", 37>>, <<"&", 38>>, <<"+", 43>>,
    <<"/", 47>>, <<":", 58>>, <<";", 59>>, <<"=", 61>>, <<"?", 63>> >>

HasCode(c) == \E i \in 1..Len(Codes) : Codes[i][1] = c

CodeOf(c) == Codes[CHOOSE i \in 1..Len(Codes) : Codes[i][1] = c][2]

\* The character with the given code: one of Codes, a digit, or a byte
\* written by its two hex digits.
CharOf(n) ==
    IF \E i \in 1..Len(Codes) : Codes[i][2] = n
    THEN Codes[CHOOSE i \in 1..Len(Codes) : Codes[i][2] = n][1]
    ELSE IF n >= 48 /\ n <= 57 THEN Digits[n - 47]
    ELSE "x" \o HexUpper[(n \div 16) + 1] \o HexUpper[(n % 16) + 1]

Tail2(s) == SubSeq(s, 3, Len(s))

Tail3(s) == SubSeq(s, 4, Len(s))

\* strings.Contains(s, c) for a one-character c.
Contains(s, c) == \E i \in 1..Len(s) : s[i] = c

IndexOf(s, c) == CHOOSE i \in 1..Len(s) : s[i] = c /\ \A j \in 1..(i - 1) : s[j] # c

\* strings.Cut(s, c): the text before the first c, and the text after it.
CutBefore(s, c) == IF Contains(s, c) THEN SubSeq(s, 1, IndexOf(s, c) - 1) ELSE s

CutAfter(s, c) == IF Contains(s, c) THEN SubSeq(s, IndexOf(s, c) + 1, Len(s)) ELSE <<>>

\* All strings over the characters cs of length at most n.
RECURSIVE StrsUpTo(_, _)
StrsUpTo(cs, n) ==
    IF n = 0 THEN {<<>>}
    ELSE LET shorter == StrsUpTo(cs, n - 1)
         IN  shorter \cup {Append(s, c) : s \in shorter, c \in cs}

\* strconv / fmt.Sprintf("%d", n).
RECURSIVE ItoaNat(_)
ItoaNat(n) == IF n < 10 THEN <<Digits[n + 1]>> ELSE Append(ItoaNat(n \div 10), Digits[(n % 10) + 1])

Itoa(n) == IF n < 0 THEN <<"-">> \o ItoaNat(0 - n) ELSE ItoaNat(n)

(***************************************************************************)
(* net/url: escaping, query parsing, URL parsing.                          *)
(***************************************************************************)
\* The escape sequences of s are well formed: each % is followed by two hex
\* digits.
RECURSIVE ValidEscapes(_)
ValidEscapes(s) ==
    IF s = <<>> THEN TRUE
    ELSE IF Head(s) = "%"
         THEN Len(s) >= 3 /\ ishex(s[2]) /\ ishex(s[3]) /\ ValidEscapes(Tail3(s))
         ELSE ValidEscapes(Tail(s))

\* url.QueryUnescape on a string with valid escapes: %XX is the byte XX and
\* + is a space.
RECURSIVE Unescape(_)
Unescape(s) ==
    IF s = <<>> THEN <<>>
    ELSE IF Head(s) = "%"
         THEN <<CharOf(16 * unhex(s[2]) + unhex(s[3]))>> \o Unescape(Tail3(s))
         ELSE IF Head(s) = "+" THEN <<" ">> \o Unescape(Tail(s))
         ELSE <<Head(s)>> \o Unescape(Tail(s))

\* url.QueryEscape: a space becomes +, every other reserved character %XX.
EscapeChar(c) ==
    IF c = " " THEN <<"+">>
    ELSE IF HasCode(c)
         THEN <<"%", HexUpper[(CodeOf(c) \div 16) + 1], HexUpper[(CodeOf(c) % 16) + 1]>>
         ELSE <<c>>

RECURSIVE QueryEscape(_)
QueryEscape(s) == IF s = <<>> THEN <<>> ELSE EscapeChar(Head(s)) \o QueryEscape(Tail(s))

\* url.ParseQuery as used by URL.Query(): the key/value pairs of the query in
\* order; a pair with a semicolon or a malformed escape is dropped.
RECURSIVE ParseQuery(_)
ParseQuery(query) ==
    IF query = <<>> THEN <<>>
    ELSE LET piece == CutBefore(query, "&")
             rest  == CutAfter(query, "&")
             k     == CutBefore(piece, "=")
             v     == CutAfter(piece, "=")
         IN  IF Contains(piece, ";") \/ piece = <<>>
                \/ ~ValidEscapes(k) \/ ~ValidEscapes(v)
             THEN ParseQuery(rest)
             ELSE <<[key |-> Unescape(k), value |-> Unescape(v)]>> \o ParseQuery(rest)

\* url.Values.Get: the first value of the key, "" when the key is absent.
Get(values, key) ==
    IF \E i \in 1..Len(values) : values[i].key = key
    THEN values[CHOOSE i \in 1..Len(values) :
                    values[i].key = key /\ \A j \in 1..(i - 1) : values[j].key # key].value
    ELSE <<>>

Has(values, key) == \E i \in 1..Len(values) : values[i].key = key

\* url.Parse: the fragment and the query are cut off, and the rest must have
\* well-formed escapes; the query is not validated.
ParseURL(rawURL) ==
    LET u    == CutBefore(rawURL, "#")
        frag == CutAfter(rawURL, "#")
        rest == CutBefore(u, "?")
    IN  [err |-> ~(ValidEscapes(rest) /\ ValidEscapes(frag)),
         RawQuery |-> CutAfter(u, "?")]

(***************************************************************************)
(* Parameter names.                                                        *)
(***************************************************************************)
pTop == <<"$", "top">>
pCount == <<"$", "count">>
pSkip == <<"$", "skip">>
pSkiptoken == <<"$", "skiptoken">>
pFilter == <<"$", "filter">>
pOrderby == <<"$", "orderby">>
pStartDateTime == <<"startDateTime">>
pEndDateTime == <<"endDateTime">>

\* The parameter names in the byte order url.Values.Encode sorts them in.
SortedKeys == <<pCount, pFilter, pOrderby, pSkip, pSkiptoken, pTop, pEndDateTime, pStartDateTime>>

\* url.Values{} and url.Values.Set.
NoParams == [k \in {} |-> <<>>]

Set(params, k, v) == [x \in (DOMAIN params) \cup {k} |-> IF x = k THEN v ELSE params[x]]

\* url.Values.Encode: key=value pairs, escaped, sorted by key, joined by &.
RECURSIVE EncodeFrom(_, _)
EncodeFrom(params, i) ==
    IF i > Len(SortedKeys) THEN <<>>
    ELSE LET k    == SortedKeys[i]
             rest == EncodeFrom(params, i + 1)
         IN  IF k \in DOMAIN params
             THEN QueryEscape(k) \o <<"=">> \o QueryEscape(params[k])
                  \o (IF rest = <<>> THEN <<>> ELSE <<"&">> \o rest)
             ELSE rest

Encode(params) == EncodeFrom(params, 1)

(***************************************************************************)
(* ExtractPageToken (mail.go).                                             *)
(***************************************************************************)
\* Variants of ExtractPageToken with a slip: $skip looked up first; the parse
\* error ignored; the raw text of the value returned undecoded.
ExtractPageTokenSkipFirst(link) ==
    IF link = <<>> THEN <<>>
    ELSE LET parsed == ParseURL(link)
             query  == ParseQuery(parsed.RawQuery)
         IN  IF parsed.err THEN <<>>
             ELSE IF Get(query, pSkip) # <<>> THEN Get(query, pSkip)
             ELSE IF Get(query, pSkiptoken) # <<>> THEN Get(query, pSkiptoken)
             ELSE <<>>

ExtractPageTokenIgnoreErr(link) ==
    IF link = <<>> THEN <<>>
    ELSE LET query == ParseQuery(ParseURL(link).RawQuery)
         IN  IF Get(query, pSkiptoken) # <<>> THEN Get(query, pSkiptoken)
             ELSE IF Get(query, pSkip) # <<>> THEN Get(query, pSkip)
             ELSE <<>>

ExtractPageTokenRaw(link) ==
    IF link = <<>> THEN <<>>
    ELSE LET parsed == ParseURL(link)
             query  == ParseQuery(parsed.RawQuery)
         IN  IF parsed.err THEN <<>>
             ELSE IF Get(query, pSkiptoken) # <<>> THEN QueryEscape(Get(query, pSkiptoken))
             ELSE IF Get(query, pSkip) # <<>> THEN QueryEscape(Get(query, pSkip))
             ELSE <<>>

ExtractPageToken(link) ==
    IF link = <<>> THEN <<>>
    ELSE LET parsed == ParseURL(link)
             query  == ParseQuery(parsed.RawQuery)
         IN  IF parsed.err THEN <<>>
             ELSE IF Get(query, pSkiptoken) # <<>> THEN Get(query, pSkiptoken)
             ELSE IF Get(query, pSkip) # <<>> THEN Get(query, pSkip)
             ELSE <<>>

(***************************************************************************)
(* Inputs: continuation links the server may send.                         *)
(***************************************************************************)
BaseURL == <<"https", ":", "/", "/", "graph.microsoft.com", "/", "v1.0", "/", "me", "/", "messages">>

\* Raw characters of a parameter value inside a link.
ValChars == {"x", "2", "B", "%", "+"}

LinkKeys == {pSkiptoken, pSkip, pTop}

\* key=value with a raw value of at most n characters, or a bare key.
RawPairs(n) == {k \o <<"=">> \o v : k \in LinkKeys, v \in StrsUpTo(ValChars, n)} \cup LinkKeys

\* Queries of up to n pairs with short values, joined by &.
ShortPairs == {k \o <<"=">> \o v : k \in LinkKeys, v \in {<<>>, <<"x">>, <<"2">>}}

RECURSIVE RawQueries(_)
RawQueries(n) ==
    IF n = 1 THEN ShortPairs
    ELSE LET shorter == RawQueries(n - 1)
         IN  shorter \cup {q \o <<"&">> \o p : q \in shorter, p \in ShortPairs}

\* What may follow the base URL before the query: nothing, a well-formed
\* escape, a malformed escape.
PathTails == {<<>>, <<"%", "2", "B">>, <<"%", "%">>}

LinksOf(queries) ==
    {<<>>, <<"x", " ", "%", "%">>}
        \cup {BaseURL \o t : t \in PathTails}
        \cup {BaseURL \o t \o <<"?">> \o q : t \in PathTails, q \in queries}

\* Characters of an opaque page token.
TokenChars == {"0", "1", "x", "-", " ", "+"}

Tokens == StrsUpTo(TokenChars, MaxTokenLen)

Offsets == 0..12

\* A link that carries the token t, respectively the offset n, as the server
\* writes it: escaped.
SyntheticLinkWithCursorParam(t) == BaseURL \o <<"?">> \o QueryEscape(pSkiptoken) \o <<"=">> \o QueryEscape(t)

SyntheticLinkWithOffsetParam(n) == BaseURL \o <<"?", "$", "skip", "=">> \o Itoa(n) \o <<"&", "$", "top", "=", "5", "0">>

Links ==
    LinksOf(RawPairs(MaxValLen) \cup RawQueries(MaxPairs))
        \cup {SyntheticLinkWithCursorParam(t) : t \in Tokens}
        \cup {SyntheticLinkWithOffsetParam(n) : n \in Offsets}

\* The links used in the replies to list requests.
ReplyLinks ==
    LinksOf(RawPairs(1)
            \cup {pSkip \o <<"=", "2", "&">> \o pSkiptoken \o <<"=", "x">>,
                  pSkiptoken \o <<"=", "x", "&">> \o pSkip \o <<"=", "2">>})
        \cup {SyntheticLinkWithCursorParam(<<"x", "+">>), SyntheticLinkWithOffsetParam(10)}

(***************************************************************************)
(* Specification of the pure function ExtractPageToken: the link is drawn  *)
(* at the start and the function is applied to it.                         *)
(***************************************************************************)
Idle ==
    /\ pc = "idle"
    /\ op = "none"
    /\ opts = [isNil |-> TRUE]
    /\ request = [sent |-> FALSE]
    /\ reply = [kind |-> "none"]
    /\ response = [kind |-> "none"]
    /\ calendars = <<>>
    /\ calIdx = 0
    /\ allEvents = <<>>
    /\ received = <<>>
    /\ requests = 0

\* calendar respond before it has selected any event.
NoBatch == [eventIDs |-> <<>>, response |-> <<>>, calls |-> <<>>]

\* The command line at rest: no PATH, no arguments, no configuration file,
\* nothing written.
CliIdle ==
    /\ environ = [PATH |-> <<>>]
    /\ args = <<>>
    /\ configFile = [exists |-> FALSE]
    /\ stdout = <<>>
    /\ server = <<>>
    /\ agent = [token |-> <<>>, fetched |-> <<>>]
    /\ batch = NoBatch

InitExtract ==
    /\ Idle
    /\ CliIdle
    /\ nextLink \in Links
    /\ pageToken = <<>>

ExtractPageTokenCall ==
    /\ pc = "idle"
    /\ op = "none"
    /\ pc' = "done"
    /\ op' = "ExtractPageToken"
    /\ pageToken' = ExtractPageToken(nextLink)
    /\ UNCHANGED <<opts, request, reply, response, aggr, nextLink, requests, cli>>

NextExtract == ExtractPageTokenCall

SpecExtract == InitExtract /\ [][NextExtract]_vars

(***************************************************************************)
(* fmt.Sscanf(token, "%d", new(int)) succeeds: leading spaces are skipped, *)
(* a sign is accepted, the following run of digits and underscores is the  *)
(* number (strconv.ParseInt rejects an underscore in base 10), and the     *)
(* input after the number is not looked at.  Tokens of the model are too   *)
(* short to overflow an int.                                               *)
(***************************************************************************)
RECURSIVE SkipSpace(_)
SkipSpace(s) == IF s # <<>> /\ Head(s) = " " THEN SkipSpace(Tail(s)) ELSE s

RECURSIVE ScanNumber(_)
ScanNumber(s) ==
    IF s # <<>> /\ (IsDigit(Head(s)) \/ Head(s) = "_")
    THEN <<Head(s)>> \o ScanNumber(Tail(s))
    ELSE <<>>

SscanfIntOK(token) ==
    LET s1  == SkipSpace(token)
        s2  == IF s1 # <<>> /\ Head(s1) \in {"+", "-"} THEN Tail(s1) ELSE s1
        tok == ScanNumber(s2)
    IN  /\ s1 # <<>>
        /\ tok # <<>>
        /\ ~Contains(tok, "_")

(***************************************************************************)
(* Inputs of the list operations.                                          *)
(***************************************************************************)
TopValues == {-1, 0, 2}

SkipValues == {-1, 0, 3}

\* A *time.Time: <<>> is nil, <<d>> points to day d of January 2025, 00:00 UTC.
TimeValues == {<<>>, <<1>>, <<15>>}

Filters == {<<>>, <<"isRead", " ", "eq", " ", "true">>}

OrderBys == {<<>>, <<"receivedDateTime", " ", "desc">>}

IDs == {<<>>, <<"id1">>}

\* Short page tokens, for the operations that pass them on unexamined.
ShortTokens == StrsUpTo(TokenChars, 1)

NilOptions == [isNil |-> TRUE]

ListMessagesOptionsSet ==
    {NilOptions} \cup
    [isNil : {FALSE}, FolderID : IDs, Top : TopValues, Skip : SkipValues, PageToken : Tokens,
     Filter : Filters, OrderBy : OrderBys, StartTime : {<<>>, <<1>>}, EndTime : {<<>>, <<15>>}]

CalendarViewOptionsSet ==
    {NilOptions} \cup
    [isNil : {FALSE}, StartDateTime : {<<>>, <<"2025-01-01">>}, EndDateTime : {<<>>, <<"2025-01-31">>},
     CalendarID : IDs, AllCalendars : {FALSE}, Top : TopValues, PageToken : ShortTokens, UserID : IDs]

ListEventsOptionsSet ==
    {NilOptions} \cup
    [isNil : {FALSE}, CalendarID : IDs, Top : TopValues, PageToken : ShortTokens, Filter : Filters]

ListItemsOptionsSet ==
    {NilOptions} \cup
    [isNil : {FALSE}, UserID : IDs, SiteID : IDs, DriveID : IDs, Shared : BOOLEAN,
     Top : TopValues, PageToken : ShortTokens, OrderBy : OrderBys]

PathOrIDs == {<<>>, <<"/">>, <<"item1">>, <<"/", "Documents">>, <<"Documents", "/", "a.txt">>}

(***************************************************************************)
(* Client.Get and Client.doJSONRequest (client.go).  An outcome is what    *)
(* the HTTP layer does with the request: httpClient.Do fails ("do"), the   *)
(* body cannot be read ("read"), or a status and a body arrive ("status"). *)
(***************************************************************************)
StatusOK == 200

Statuses == {100, 199, 200, 201, 204, 206, 299, 300, 301, 304, 400, 401, 404, 500}

Bodies == {<<>>, <<"{}">>, <<"x">>}

Outcomes ==
    {[kind |-> "do"]} \cup [kind : {"read"}, status : Statuses]
    \cup [kind : {"status"}, status : Statuses, body : Bodies]

StatusError(o) ==
    [kind |-> "error", err |-> [msg |-> "API request failed with status", status |-> o.status, body |-> o.body]]

\* Client.Get: only http.StatusOK is a success.
ClientGetResult(o) ==
    IF o.kind = "do" THEN [kind |-> "error", err |-> [msg |-> "request failed"]]
    ELSE IF o.kind = "read" THEN [kind |-> "error", err |-> [msg |-> "failed to read response"]]
    ELSE IF o.status # StatusOK THEN StatusError(o)
    ELSE [kind |-> "ok", body |-> o.body]

\* Client.doJSONRequest, behind Post and Put: every status from 200 to 299
\* is a success.
doJSONRequestResult(o) ==
    IF o.kind = "do" THEN [kind |-> "error", err |-> [msg |-> "request failed"]]
    ELSE IF o.kind = "read" THEN [kind |-> "error", err |-> [msg |-> "failed to read response"]]
    ELSE IF o.status < 200 \/ o.status >= 300 THEN StatusError(o)
    ELSE [kind |-> "ok", body |-> o.body]

\* The failures of Client.Get a list operation is shown.
GetFailures ==
    {[kind |-> "error", err |-> ClientGetResult(o).err] :
        o \in {[kind |-> "do"], [kind |-> "status", status |-> 404, body |-> <<"x">>],
               [kind |-> "status", status |-> 204, body |-> <<>>]}}

\* What the server may answer to a GET: a failure of Client.Get (transport,
\* non-200 status), a body that is not the expected JSON, or a page.
ItemIDs == {"i1", "i2"}

Replies ==
    GetFailures \cup {[kind |-> "badjson"]} \cup
    [kind : {"ok"}, value : StrsUpTo(ItemIDs, MaxItems), nextLink : ReplyLinks]

\* Events as the server sends them: the calendarId field is usually absent.
Events == {[ID |-> "i1", CalendarID |-> <<>>], [ID |-> "i2", CalendarID |-> <<"srv">>]}

EventReplies ==
    GetFailures \cup {[kind |-> "badjson"]} \cup
    [kind : {"ok"}, value : StrsUpTo(Events, MaxItems), nextLink : ReplyLinks]

\* All-calendars mode: the options, the calendar lists and the answers of the
\* calendars.
AllCalendarsOptionsSet ==
    [isNil : {FALSE}, StartDateTime : {<<"2025-01-01">>}, EndDateTime : {<<"2025-01-31">>},
     CalendarID : {<<>>}, AllCalendars : {TRUE}, Top : {0, 2}, PageToken : {<<>>, <<"1">>}, UserID : IDs]

CalendarIDs == {<<"A">>, <<"B">>, <<"C">>}

CalendarLists == {l \in StrsUpTo(CalendarIDs, MaxCals) : \A i, j \in 1..Len(l) : l[i] = l[j] => i = j}

CalendarsReplies ==
    GetFailures \cup {[kind |-> "badjson"]} \cup [kind : {"ok"}, value : CalendarLists]

CalReplies ==
    GetFailures \cup {[kind |-> "badjson"]} \cup
    [kind : {"ok"}, value : StrsUpTo(Events, MaxCalItems),
     nextLink : {<<>>, SyntheticLinkWithCursorParam(<<"x">>)}]

(***************************************************************************)
(* time.Time.Format(time.RFC3339).                                         *)
(***************************************************************************)
TwoDigits(n) == <<Digits[(n \div 10) + 1], Digits[(n % 10) + 1]>>

FormatRFC3339(t) == <<"2025", "-", "01", "-">> \o TwoDigits(t[1]) \o <<"T", "00", ":", "00", ":", "00", "Z">>

(***************************************************************************)
(* ListMessagesWithPagination (mail.go): the request.                      *)
(***************************************************************************)
DefaultMessageLimit == 100

ListMessagesPath(o) ==
    IF ~o.isNil /\ o.FolderID # <<>>
    THEN <<"/", "me", "/", "mailFolders", "/">> \o o.FolderID \o <<"/", "messages">>
    ELSE <<"/", "me", "/", "messages">>

\* A variant with a slip: the Skip option is added to the page token.
ListMessagesPaginationBoth(params, o) ==
    LET p == IF o.PageToken # <<>>
             THEN IF SscanfIntOK(o.PageToken)
                  THEN Set(params, pSkip, o.PageToken)
                  ELSE Set(params, pSkiptoken, o.PageToken)
             ELSE params
    IN  IF o.Skip > 0 THEN Set(p, pSkip, Itoa(o.Skip)) ELSE p

\* A variant with a slip: the Skip option is looked at first.
ListMessagesPaginationSkipFirst(params, o) ==
    IF o.Skip > 0 THEN Set(params, pSkip, Itoa(o.Skip))
    ELSE IF o.PageToken # <<>>
    THEN IF SscanfIntOK(o.PageToken)
         THEN Set(params, pSkip, o.PageToken)
         ELSE Set(params, pSkiptoken, o.PageToken)
    ELSE params

\* Handle pagination: PageToken takes precedence over Skip.
ListMessagesPagination(params, o) ==
    IF o.PageToken # <<>>
    THEN IF SscanfIntOK(o.PageToken)
         THEN Set(params, pSkip, o.PageToken)
         ELSE Set(params, pSkiptoken, o.PageToken)
    ELSE IF o.Skip > 0 THEN Set(params, pSkip, Itoa(o.Skip))
    ELSE params

\* A variant with a slip: the caller's filter is put before the time clauses.
ListMessagesFiltersCallerFirst(o) ==
    (IF o.Filter # <<>> THEN <<o.Filter>> ELSE <<>>)
    \o (IF o.StartTime # <<>>
        THEN <<<<"receivedDateTime", " ", "ge", " ">> \o FormatRFC3339(o.StartTime)>> ELSE <<>>)
    \o (IF o.EndTime # <<>>
        THEN <<<<"receivedDateTime", " ", "lt", " ">> \o FormatRFC3339(o.EndTime)>> ELSE <<>>)

ListMessagesFilters(o) ==
    (IF o.StartTime # <<>>
     THEN <<<<"receivedDateTime", " ", "ge", " ">> \o FormatRFC3339(o.StartTime)>> ELSE <<>>)
    \o (IF o.EndTime # <<>>
        THEN <<<<"receivedDateTime", " ", "lt", " ">> \o FormatRFC3339(o.EndTime)>> ELSE <<>>)
    \o (IF o.Filter # <<>> THEN <<o.Filter>> ELSE <<>>)

\* filterStr := filters[0]; for i := 1; ...: filterStr += " and " + filters[i]
RECURSIVE JoinAnd(_)
JoinAnd(filters) ==
    IF Len(filters) = 1 THEN filters[1]
    ELSE JoinAnd(SubSeq(filters, 1, Len(filters) - 1)) \o <<" ", "and", " ">> \o filters[Len(filters)]

ListMessagesFilterParam(params, o) ==
    IF Len(ListMessagesFilters(o)) > 0
    THEN Set(params, pFilter, JoinAnd(ListMessagesFilters(o)))
    ELSE params

ListMessagesParams(o) ==
    LET p0 == Set(Set(NoParams, pTop, Itoa(DefaultMessageLimit)), pCount, <<"true">>)
    IN  IF o.isNil THEN p0
        ELSE LET p1 == IF o.Top > 0 THEN Set(p0, pTop, Itoa(o.Top)) ELSE p0
                 p2 == ListMessagesPagination(p1, o)
                 p3 == ListMessagesFilterParam(p2, o)
             IN  IF o.OrderBy # <<>> THEN Set(p3, pOrderby, o.OrderBy) ELSE p3

ListMessagesTarget(o) == ListMessagesPath(o) \o <<"?">> \o Encode(ListMessagesParams(o))

(***************************************************************************)
(* calendarViewSingle (calendar.go): the request.                          *)
(***************************************************************************)
CalendarViewPath(o) ==
    IF o.UserID # <<>>
    THEN IF o.CalendarID # <<>>
         THEN <<"/", "users", "/">> \o o.UserID \o <<"/", "calendars", "/">> \o o.CalendarID \o <<"/", "calendarView">>
         ELSE <<"/", "users", "/">> \o o.UserID \o <<"/", "calendarView">>
    ELSE IF o.CalendarID # <<>>
         THEN <<"/", "me", "/", "calendars", "/">> \o o.CalendarID \o <<"/", "calendarView">>
         ELSE <<"/", "me", "/", "calendarView">>

CalendarViewParams(o) ==
    LET p0 == Set(Set(NoParams, pStartDateTime, o.StartDateTime), pEndDateTime, o.EndDateTime)
        p1 == IF o.Top > 0 THEN Set(p0, pTop, Itoa(o.Top)) ELSE p0
    IN  IF o.PageToken # <<>> THEN Set(p1, pSkip, o.PageToken) ELSE p1

CalendarViewTarget(o) == CalendarViewPath(o) \o <<"?">> \o Encode(CalendarViewParams(o))

(***************************************************************************)
(* ListEvents (calendar.go): the request.                                  *)
(***************************************************************************)
ListEventsPath(o) ==
    IF ~o.isNil /\ o.CalendarID # <<>>
    THEN <<"/", "me", "/", "calendars", "/">> \o o.CalendarID \o <<"/", "events">>
    ELSE <<"/", "me", "/", "events">>

\* A variant with a slip: Top is compared with >= 0.
ListEventsParamsTopZero(o) ==
    IF o.isNil THEN NoParams
    ELSE LET p1 == IF o.Top >= 0 THEN Set(NoParams, pTop, Itoa(o.Top)) ELSE NoParams
             p2 == IF o.PageToken # <<>> THEN Set(p1, pSkip, o.PageToken) ELSE p1
         IN  IF o.Filter # <<>> THEN Set(p2, pFilter, o.Filter) ELSE p2

ListEventsParams(o) ==
    IF o.isNil THEN NoParams
    ELSE LET p1 == IF o.Top > 0 THEN Set(NoParams, pTop, Itoa(o.Top)) ELSE NoParams
             p2 == IF o.PageToken # <<>> THEN Set(p1, pSkip, o.PageToken) ELSE p1
         IN  IF o.Filter # <<>> THEN Set(p2, pFilter, o.Filter) ELSE p2

ListEventsTarget(o) ==
    IF DOMAIN ListEventsParams(o) # {}
    THEN ListEventsPath(o) \o <<"?">> \o Encode(ListEventsParams(o))
    ELSE ListEventsPath(o)

(***************************************************************************)
(* ListItems (drive.go): the request.                                      *)
(***************************************************************************)
buildDrivePath(o) ==
    IF o.isNil THEN <<"/", "me", "/", "drive">>
    ELSE IF o.DriveID # <<>> THEN <<"/", "drives", "/">> \o o.DriveID
    ELSE IF o.UserID # <<>> THEN <<"/", "users", "/">> \o o.UserID \o <<"/", "drive">>
    ELSE IF o.SiteID # <<>> THEN <<"/", "sites", "/">> \o o.SiteID \o <<"/", "drive">>
    ELSE <<"/", "me", "/", "drive">>

isItemID(pathOrID) == ~Contains(pathOrID, "/")

TrimPrefixSlash(s) == IF s # <<>> /\ Head(s) = "/" THEN Tail(s) ELSE s

ListItemsPath(pathOrID, o) ==
    IF pathOrID = <<"/">> \/ pathOrID = <<>>
    THEN buildDrivePath(o) \o <<"/", "root", "/", "children">>
    ELSE IF isItemID(pathOrID)
         THEN buildDrivePath(o) \o <<"/", "items", "/">> \o pathOrID \o <<"/", "children">>
         ELSE buildDrivePath(o) \o <<"/", "root", ":", "/">> \o TrimPrefixSlash(pathOrID) \o <<":", "/", "children">>

ListItemsParams(o) ==
    IF o.isNil THEN NoParams
    ELSE LET p1 == IF o.Top > 0 THEN Set(NoParams, pTop, Itoa(o.Top)) ELSE NoParams
             p2 == IF o.PageToken # <<>> THEN Set(p1, pSkiptoken, o.PageToken) ELSE p1
         IN  IF o.OrderBy # <<>> THEN Set(p2, pOrderby, o.OrderBy) ELSE p2

ListItemsTarget(pathOrID, o) ==
    IF DOMAIN ListItemsParams(o) # {}
    THEN ListItemsPath(pathOrID, o) \o <<"?">> \o Encode(ListItemsParams(o))
    ELSE ListItemsPath(pathOrID, o)

(***************************************************************************)
(* The responses of the four list operations.                              *)
(***************************************************************************)
\* A variant with a slip: the error of Client.Get is wrapped in another one.
GetErrorWrapped(r) == [kind |-> "error", err |-> [msg |-> "request error", cause |-> r.err]]

\* if err != nil { return nil, err }
GetError(r) == [kind |-> "error", err |-> r.err]

\* A variant with a slip: Count counts the distinct items.
ListMessagesResponseDistinct(r) ==
    IF r.kind = "error" THEN GetError(r)
    ELSE IF r.kind = "badjson" THEN [kind |-> "error", err |-> "failed to unmarshal messages"]
    ELSE [kind |-> "ok", Items |-> r.value,
          Count |-> Cardinality({r.value[i] : i \in 1..Len(r.value)}),
          HasMore |-> r.nextLink # <<>>, NextPageToken |-> ExtractPageToken(r.nextLink)]

ListMessagesResponse(r) ==
    IF r.kind = "error" THEN GetError(r)
    ELSE IF r.kind = "badjson" THEN [kind |-> "error", err |-> "failed to unmarshal messages"]
    ELSE [kind |-> "ok", Items |-> r.value, Count |-> Len(r.value),
          HasMore |-> r.nextLink # <<>>, NextPageToken |-> ExtractPageToken(r.nextLink)]

CalendarViewSingleResponse(r) ==
    IF r.kind = "error" THEN GetError(r)
    ELSE IF r.kind = "badjson" THEN [kind |-> "error", err |-> "failed to unmarshal events"]
    ELSE [kind |-> "ok", Items |-> r.value, Count |-> Len(r.value),
          HasMore |-> r.nextLink # <<>>, NextPageToken |-> ExtractPageToken(r.nextLink)]

ListEventsResponse(r) ==
    IF r.kind = "error" THEN GetError(r)
    ELSE IF r.kind = "badjson" THEN [kind |-> "error", err |-> "failed to unmarshal events"]
    ELSE [kind |-> "ok", Items |-> r.value, Count |-> Len(r.value),
          HasMore |-> r.nextLink # <<>>, NextPageToken |-> ExtractPageToken(r.nextLink)]

ListItemsResponse(r) ==
    IF r.kind = "error" THEN GetError(r)
    ELSE IF r.kind = "badjson" THEN [kind |-> "error", err |-> "failed to unmarshal items"]
    ELSE [kind |-> "ok", Items |-> r.value, Count |-> Len(r.value),
          HasMore |-> r.nextLink # <<>>, NextPageToken |-> ExtractPageToken(r.nextLink)]

(***************************************************************************)
(* Actions.  A list operation builds its request and hands it to          *)
(* Client.Get (pc = "sent"); the request reaches the server (pc =          *)
(* "served"); when the server has answered, the operation builds its       *)
(* response and returns (pc = "done"); the caller then takes the response. *)
(* opts and request are the arguments and the request of the call while    *)
(* its request is under way: the code reads neither after it has called    *)
(* Client.Get.                                                             *)
(***************************************************************************)
SingleListOps == {"ListMessagesWithPagination", "CalendarView", "ListEvents", "ListItems"}

Send(name, o, target) ==
    /\ pc' = "sent"
    /\ op' = name
    /\ opts' = o
    /\ request' = [sent |-> TRUE, method |-> "GET", target |-> target]
    /\ requests' = requests + 1
    /\ UNCHANGED <<reply, response, aggr, nextLink, pageToken, cli>>

\* Client.Get performs the request: it leaves the client.
ClientGet ==
    /\ pc = "sent"
    /\ request.method = "GET"
    /\ pc' = "served"
    /\ opts' = IF op \in SingleListOps THEN NilOptions ELSE opts
    /\ request' = [sent |-> FALSE]
    /\ UNCHANGED <<op, reply, response, aggr, nextLink, pageToken, requests, cli>>

Receive(r) ==
    /\ reply' = r
    /\ UNCHANGED <<op, opts, request, aggr, nextLink, pageToken, requests, cli>>

ListMessagesWithPagination ==
    /\ pc = "idle"
    /\ \E o \in ListMessagesOptionsSet :
        Send("ListMessagesWithPagination", o, ListMessagesTarget(o))

ListMessagesWithPaginationReturn ==
    /\ pc = "served"
    /\ op = "ListMessagesWithPagination"
    /\ pc' = "done"
    /\ \E r \in Replies :
        /\ Receive(r)
        /\ response' = ListMessagesResponse(r)

(***************************************************************************)
(* calendarViewAllCalendars (calendar.go): ListCalendars, then one         *)
(* calendarViewSingle per calendar; a calendar whose request fails is      *)
(* skipped.                                                                *)
(***************************************************************************)
ListCalendarsTarget == <<"/", "me", "/", "calendars">>

\* A variant with a slip: the caller's PageToken and UserID are passed on.
calOptsOfCaller(o, calID) ==
    [isNil |-> FALSE, StartDateTime |-> o.StartDateTime, EndDateTime |-> o.EndDateTime,
     CalendarID |-> calID, AllCalendars |-> FALSE, Top |-> o.Top, PageToken |-> o.PageToken,
     UserID |-> o.UserID]

\* calOpts := &CalendarViewOptions{StartDateTime, EndDateTime, CalendarID, Top}.
calOpts(o, calID) ==
    [isNil |-> FALSE, StartDateTime |-> o.StartDateTime, EndDateTime |-> o.EndDateTime,
     CalendarID |-> calID, AllCalendars |-> FALSE, Top |-> o.Top, PageToken |-> <<>>, UserID |-> <<>>]

\* A variant with a slip: an event keeps the calendarId the server gave it.
TagIfAbsent(events, calID) ==
    [i \in 1..Len(events) |->
        IF events[i].CalendarID = <<>> THEN [events[i] EXCEPT !.CalendarID = calID] ELSE events[i]]

\* event.CalendarID = cal.ID, for each event of the page.
Tag(events, calID) == [i \in 1..Len(events) |-> [events[i] EXCEPT !.CalendarID = calID]]

\* A variant with a slip: a calendar's events are put before the earlier ones.
appendEventsFront(all, resp, calID) ==
    IF resp.kind = "error" THEN all ELSE Tag(resp.Items, calID) \o all

\* One turn of the loop: a failed calendar is skipped, the events of the
\* others are tagged and appended.
appendEvents(all, resp, calID) ==
    IF resp.kind = "error" THEN all ELSE all \o Tag(resp.Items, calID)

\* A variant with a slip: a calendar list that cannot be decoded counts as empty.
ListCalendarsResultLenient(r) ==
    IF r.kind = "error" THEN GetError(r)
    ELSE IF r.kind = "badjson" THEN [kind |-> "ok", value |-> <<>>]
    ELSE [kind |-> "ok", value |-> r.value]

ListCalendarsResult(r) ==
    IF r.kind = "error" THEN GetError(r)
    ELSE IF r.kind = "badjson" THEN [kind |-> "error", err |-> "failed to unmarshal calendars"]
    ELSE [kind |-> "ok", value |-> r.value]

\* A variant with a slip: more pages are announced when there are events.
AllCalendarsResponseMore(events) ==
    [kind |-> "ok", Items |-> events, Count |-> Len(events), HasMore |-> events # <<>>,
     NextPageToken |-> <<>>]

AllCalendarsResponse(events) ==
    [kind |-> "ok", Items |-> events, Count |-> Len(events), HasMore |-> FALSE, NextPageToken |-> <<>>]

\* A variant with a slip: the last calendar is not asked.
NextCalendarButLast(cals, i, events) ==
    IF i + 1 < Len(cals)
    THEN /\ pc' = "sent"
         /\ calIdx' = i + 1
         /\ request' = [sent |-> TRUE, method |-> "GET",
                        target |-> CalendarViewTarget(calOpts(opts, cals[i + 1]))]
         /\ requests' = requests + 1
         /\ response' = response
    ELSE /\ pc' = "done"
         /\ calIdx' = i
         /\ request' = request
         /\ requests' = requests
         /\ response' = AllCalendarsResponse(events)

\* The request for the next calendar, or the return when there is none.
NextCalendar(cals, i, events) ==
    IF i < Len(cals)
    THEN /\ pc' = "sent"
         /\ calIdx' = i + 1
         /\ request' = [sent |-> TRUE, method |-> "GET",
                        target |-> CalendarViewTarget(calOpts(opts, cals[i + 1]))]
         /\ requests' = requests + 1
         /\ response' = response
    ELSE /\ pc' = "done"
         /\ calIdx' = i
         /\ request' = request
         /\ requests' = requests
         /\ response' = AllCalendarsResponse(events)

ListCalendarsReturn ==
    /\ pc = "served"
    /\ op = "calendarViewAllCalendars"
    /\ calIdx = 0
    /\ \E r \in CalendarsReplies :
        /\ reply' = r
        /\ IF ListCalendarsResult(r).kind # "ok"
           THEN /\ pc' = "done"
                /\ response' = [kind |-> "error",
                                err |-> <<"failed to list calendars", ListCalendarsResult(r).err>>]
                /\ UNCHANGED <<request, calendars, calIdx, requests>>
           ELSE /\ calendars' = ListCalendarsResult(r).value
                /\ NextCalendar(ListCalendarsResult(r).value, 0, <<>>)
        /\ UNCHANGED <<op, opts, allEvents, received, nextLink, pageToken, cli>>

calendarViewAllCalendarsReturn ==
    /\ pc = "served"
    /\ op = "calendarViewAllCalendars"
    /\ calIdx > 0
    /\ \E r \in CalReplies :
        LET resp   == CalendarViewSingleResponse(r)
            events == appendEvents(allEvents, resp, calendars[calIdx])
        IN  /\ reply' = r
            /\ received' = Append(received, r)
            /\ allEvents' = events
            /\ NextCalendar(calendars, calIdx, events)
            /\ UNCHANGED <<op, opts, calendars, nextLink, pageToken, cli>>

\* CalendarView rejects missing options before any request is made.
CalendarViewInvalid(o) == o.isNil \/ o.StartDateTime = <<>> \/ o.EndDateTime = <<>>

CalendarView ==
    /\ pc = "idle"
    /\ \E o \in CalendarViewOptionsSet \cup AllCalendarsOptionsSet :
        IF CalendarViewInvalid(o)
        THEN /\ pc' = "done"
             /\ op' = "CalendarView"
             /\ opts' = o
             /\ response' = [kind |-> "error",
                             err |-> IF o.isNil THEN "options are required"
                                     ELSE "startDateTime and endDateTime are required"]
             /\ UNCHANGED <<request, reply, aggr, nextLink, pageToken, requests, cli>>
        ELSE IF o.AllCalendars
             THEN Send("calendarViewAllCalendars", o, ListCalendarsTarget)
             ELSE Send("CalendarView", o, CalendarViewTarget(o))

calendarViewSingleReturn ==
    /\ pc = "served"
    /\ op = "CalendarView"
    /\ pc' = "done"
    /\ \E r \in EventReplies :
        /\ Receive(r)
        /\ response' = CalendarViewSingleResponse(r)

ListEvents ==
    /\ pc = "idle"
    /\ \E o \in ListEventsOptionsSet :
        Send("ListEvents", o, ListEventsTarget(o))

ListEventsReturn ==
    /\ pc = "served"
    /\ op = "ListEvents"
    /\ pc' = "done"
    /\ \E r \in EventReplies :
        /\ Receive(r)
        /\ response' = ListEventsResponse(r)

ListItems ==
    /\ pc = "idle"
    /\ \E pathOrID \in PathOrIDs, o \in ListItemsOptionsSet :
        Send("ListItems", o, ListItemsTarget(pathOrID, o))

ListItemsReturn ==
    /\ pc = "served"
    /\ op = "ListItems"
    /\ pc' = "done"
    /\ \E r \in Replies :
        /\ Receive(r)
        /\ response' = ListItemsResponse(r)

(***************************************************************************)
(* Operations on one object: GetMessage and SendMail (mail.go), GetEvent   *)
(* and GetEventWithOptions (calendar.go).  Each checks its arguments       *)
(* before it builds a request.                                             *)
(***************************************************************************)
ObjectReplies ==
    GetFailures \cup {[kind |-> "badjson"], [kind |-> "ok", value |-> "i1"]}

\* The call returns an error without a request.
Reject(name, o, err) ==
    /\ pc' = "done"
    /\ op' = name
    /\ opts' = o
    /\ response' = [kind |-> "error", err |-> err]
    /\ UNCHANGED <<request, reply, aggr, nextLink, pageToken, requests, cli>>

ObjectResponse(r, what) ==
    IF r.kind = "error" THEN GetError(r)
    ELSE IF r.kind = "badjson" THEN [kind |-> "error", err |-> <<"failed to unmarshal", what>>]
    ELSE [kind |-> "ok", Item |-> r.value]

GetMessageInvalid(messageID) == messageID = <<>>

GetMessage ==
    /\ pc = "idle"
    /\ \E messageID \in IDs :
        IF GetMessageInvalid(messageID)
        THEN Reject("GetMessage", [isNil |-> FALSE, ID |-> messageID], "message ID is required")
        ELSE Send("GetMessage", [isNil |-> FALSE, ID |-> messageID],
                  <<"/", "me", "/", "messages", "/">> \o messageID)

GetMessageReturn ==
    /\ pc = "served"
    /\ op = "GetMessage"
    /\ pc' = "done"
    /\ \E r \in ObjectReplies :
        /\ Receive(r)
        /\ response' = ObjectResponse(r, "message")

GetEventOptionsSet ==
    {NilOptions} \cup [isNil : {FALSE}, EventID : IDs, CalendarID : IDs, UserID : IDs]

GetEventInvalid(o) == o.isNil \/ o.EventID = <<>>

GetEventPath(o) ==
    IF o.UserID # <<>>
    THEN IF o.CalendarID # <<>>
         THEN <<"/", "users", "/">> \o o.UserID \o <<"/", "calendars", "/">> \o o.CalendarID
              \o <<"/", "events", "/">> \o o.EventID
         ELSE <<"/", "users", "/">> \o o.UserID \o <<"/", "events", "/">> \o o.EventID
    ELSE IF o.CalendarID # <<>>
         THEN <<"/", "me", "/", "calendars", "/">> \o o.CalendarID \o <<"/", "events", "/">> \o o.EventID
         ELSE <<"/", "me", "/", "events", "/">> \o o.EventID

\* GetEvent(eventID, calendarID) is GetEventWithOptions with these two fields.
GetEvent ==
    /\ pc = "idle"
    /\ \E o \in GetEventOptionsSet :
        IF GetEventInvalid(o)
        THEN Reject("GetEvent", o, "event ID is required")
        ELSE Send("GetEvent", o, GetEventPath(o))

GetEventReturn ==
    /\ pc = "served"
    /\ op = "GetEvent"
    /\ pc' = "done"
    /\ \E r \in ObjectReplies :
        /\ Receive(r)
        /\ response' = ObjectResponse(r, "event")

Messages ==
    {NilOptions} \cup
    [isNil : {FALSE}, Subject : {<<>>, <<"hello">>}, ToRecipients : {<<>>, <<"a@example.com">>}]

\* A variant with a slip: the recipients are not looked at.
SendMailInvalidSubjectOnly(message) == message.isNil \/ message.Subject = <<>>

SendMailInvalid(message) ==
    message.isNil \/ message.Subject = <<>> \/ Len(message.ToRecipients) = 0

SendMailError(message) ==
    IF message.isNil THEN "message is required"
    ELSE IF message.Subject = <<>> THEN "subject is required"
    ELSE "at least one recipient is required"

SendMail ==
    /\ pc = "idle"
    /\ \E message \in Messages :
        IF SendMailInvalid(message)
        THEN Reject("SendMail", message, SendMailError(message))
        ELSE /\ pc' = "sent"
             /\ op' = "SendMail"
             /\ opts' = message
             /\ request' = [sent |-> TRUE, method |-> "POST", target |-> <<"/", "me", "/", "sendMail">>]
             /\ requests' = requests + 1
             /\ UNCHANGED <<reply, response, aggr, nextLink, pageToken, cli>>

\* Client.Post returns; SendMail returns its error.
SendMailReturn ==
    /\ pc = "sent"
    /\ op = "SendMail"
    /\ pc' = "done"
    /\ \E o \in Outcomes :
        /\ reply' = o
        /\ response' = IF doJSONRequestResult(o).kind = "error" THEN doJSONRequestResult(o)
                       ELSE [kind |-> "ok"]
    /\ UNCHANGED <<op, opts, request, aggr, nextLink, pageToken, requests, cli>>

\* The caller consumes the response; request and response are discarded.
Consume ==
    /\ pc = "done"
    /\ op # "ExtractPageToken"
    /\ pc' = "idle"
    /\ op' = "none"
    /\ opts' = NilOptions
    /\ request' = [sent |-> FALSE]
    /\ reply' = [kind |-> "none"]
    /\ response' = [kind |-> "none"]
    /\ calendars' = <<>>
    /\ calIdx' = 0
    /\ allEvents' = <<>>
    /\ received' = <<>>
    /\ requests' = 0
    /\ UNCHANGED <<nextLink, pageToken, cli>>

(***************************************************************************)
(* Properties.                                                             *)
(***************************************************************************)
\* A single-source list operation has returned a page.
Returned == pc = "done" /\ op \in SingleListOps /\ response.kind = "ok"

\* C1: for every response of ListMessagesWithPagination, CalendarView (single
\* calendar), ListEvents and ListItems, HasMore is true if and only if
\* NextPageToken is non-empty, whatever the server's payload.
C1_HasMoreIffNextPageToken ==
    Returned => (response.HasMore <=> response.NextPageToken # <<>>)

\* C2: when the server's nextLink is non-empty but does not parse as a URL,
\* the list operation returns a response that signals no more pages: HasMore
\* is false and NextPageToken is empty.
C2_UnparseableLinkMeansNoMorePages ==
    (pc = "done" /\ op \in SingleListOps /\ reply.kind = "ok"
        /\ reply.nextLink # <<>> /\ ParseURL(reply.nextLink).err)
    => (response.kind = "ok" /\ ~response.HasMore /\ response.NextPageToken = <<>>)

\* The parameters of the link given to ExtractPageToken, decoded.
LinkQuery == ParseQuery(ParseURL(nextLink).RawQuery)

Extracted == pc = "done" /\ op = "ExtractPageToken"

\* C3: for a link whose query has one non-empty $skiptoken=c and a $skip=n,
\* ExtractPageToken returns c, in whatever order the two come and whatever
\* other parameters the query has.
C3_SkiptokenWinsOverSkip ==
    (Extracted /\ ~ParseURL(nextLink).err) =>
        \A i \in 1..Len(LinkQuery) :
            (/\ LinkQuery[i].key = pSkiptoken
             /\ LinkQuery[i].value # <<>>
             /\ \A j \in 1..Len(LinkQuery) : LinkQuery[j].key = pSkiptoken => j = i
             /\ \E j \in 1..Len(LinkQuery) : LinkQuery[j].key = pSkip)
            => pageToken = LinkQuery[i].value

\* $skip comes first, with another parameter before it, and $skiptoken wins.
C3_Witness ==
    /\ Extracted
    /\ nextLink = BaseURL \o <<"?">> \o pTop \o <<"=", "2", "&">> \o pSkip \o <<"=", "2", "&">>
                    \o pSkiptoken \o <<"=", "x">>
    /\ pageToken = <<"x">>

\* Values of a link written without any escape.
PlainValues == StrsUpTo({"x", "2", "B"}, MaxValLen) \ {<<>>}

\* C4: ExtractPageToken returns the pagination value itself: t for a link
\* that carries the non-empty $skiptoken t, the decimal string of n for a
\* link that carries $skip=n and no $skiptoken.
C4_TokenReturnedVerbatim ==
    Extracted =>
        /\ \A t \in Tokens \ {<<>>} :
                nextLink = SyntheticLinkWithCursorParam(t) => pageToken = t
        /\ \A v \in PlainValues :
                nextLink = BaseURL \o <<"?">> \o pSkiptoken \o <<"=">> \o v => pageToken = v
        /\ \A n \in Offsets :
                nextLink = SyntheticLinkWithOffsetParam(n) => pageToken = Itoa(n)

\* A token with a space and a plus sign comes back unchanged.
C4_Witness ==
    /\ Extracted
    /\ nextLink = SyntheticLinkWithCursorParam(<<" ", "+">>)
    /\ pageToken = <<" ", "+">>

\* C5: ExtractPageToken returns the empty string for the empty input, for an
\* input that does not parse as a URL, and for a parseable link with neither a
\* non-empty $skiptoken nor a non-empty $skip.
C5_EmptyTokenWithoutPagination ==
    (/\ Extracted
     /\ \/ nextLink = <<>>
        \/ ParseURL(nextLink).err
        \/ \A i \in 1..Len(LinkQuery) :
               LinkQuery[i].key \in {pSkiptoken, pSkip} => LinkQuery[i].value = <<>>)
    => pageToken = <<>>

\* A link with a malformed escape before its query, and a token in the query.
C5_Witness ==
    /\ Extracted
    /\ nextLink = BaseURL \o <<"%", "%", "?">> \o pSkiptoken \o <<"=", "x">>
    /\ pageToken = <<>>

\* The events of the calendars whose request succeeded, in the order the
\* calendars were queried.
RECURSIVE ConcatOK(_)
ConcatOK(rs) ==
    IF rs = <<>> THEN <<>>
    ELSE (IF Head(rs).kind = "ok" THEN Head(rs).value ELSE <<>>) \o ConcatOK(Tail(rs))

IDsOf(items) == [i \in 1..Len(items) |-> items[i].ID]

\* C6: every list response has Count equal to the number of its items, and its
\* items are the server's value array in the server's order; the
\* all-calendars response carries the events of the calendars' pages one
\* after the other and its Count is their total number.
C6_CountAndOrder ==
    /\ Returned => (response.Items = reply.value /\ response.Count = Len(reply.value))
    /\ (pc = "done" /\ op = "calendarViewAllCalendars" /\ response.kind = "ok") =>
            /\ response.Count = Len(response.Items)
            /\ response.Count = Len(ConcatOK(received))
            /\ IDsOf(response.Items) = IDsOf(ConcatOK(received))

\* Three calendars, one of them failing, two events in all.
C6_Witness ==
    /\ pc = "done"
    /\ op = "calendarViewAllCalendars"
    /\ response.kind = "ok"
    /\ Len(received) = 3
    /\ \E i \in 1..3 : received[i].kind = "error"
    /\ response.Count = 2
    /\ IDsOf(response.Items) = <<"i2", "i1">>

\* The query of the request under way, as the server decodes it.
ReqQuery == ParseQuery(ParseURL(request.target).RawQuery)

\* ListMessagesWithPagination has built its request from non-nil options.
MessagesRequested == pc = "sent" /\ op = "ListMessagesWithPagination" /\ ~opts.isNil

BothSet == MessagesRequested /\ opts.PageToken # <<>> /\ opts.Skip > 0

\* C7 as stated: a request built from options with a non-empty PageToken and
\* Skip > 0 never has the parameter $skip.
C7_NoSkipParameterWhenBothSet == BothSet => ~Has(ReqQuery, pSkip)

\* C7, amended: such a request never carries the Skip option; exactly one of
\* $skip and $skiptoken is sent and its value is the PageToken.
C7_PageTokenWins ==
    LET q == ReqQuery IN
        BothSet =>
            /\ Has(q, pSkip) # Has(q, pSkiptoken)
            /\ Has(q, pSkip) => Get(q, pSkip) = opts.PageToken
            /\ Has(q, pSkiptoken) => Get(q, pSkiptoken) = opts.PageToken

\* PageToken "1" and Skip 3: $skip=1 is sent.
C7_Witness ==
    LET q == ReqQuery IN
        /\ BothSet
        /\ opts.PageToken = <<"1">>
        /\ opts.Skip = 3
        /\ Get(q, pSkip) = <<"1">>

\* The whole token is an integer: an optional sign and digits, nothing else.
WholeInteger(t) ==
    LET d == IF t # <<>> /\ Head(t) \in {"+", "-"} THEN Tail(t) ELSE t
    IN  d # <<>> /\ \A i \in 1..Len(d) : IsDigit(d[i])

\* C8: a non-empty PageToken is sent as $skip exactly when the whole token is
\* an integer, and as $skiptoken whenever it has a non-numeric character.
C8_NumericTokenIsSkip ==
    LET q == ReqQuery IN
        (MessagesRequested /\ opts.PageToken # <<>>) =>
            /\ Has(q, pSkip) <=> WholeInteger(opts.PageToken)
            /\ ~WholeInteger(opts.PageToken) => Get(q, pSkiptoken) = opts.PageToken

OptionalParams == {pFilter, pOrderby, pSkip, pSkiptoken}

ListRequested ==
    /\ pc = "sent"
    /\ op \in SingleListOps \/ (op = "calendarViewAllCalendars" /\ calIdx > 0)

TopOption == IF opts.isNil THEN 0 ELSE opts.Top

StartClause == <<"receivedDateTime", " ", "ge", " ">> \o FormatRFC3339(opts.StartTime)

EndClause == <<"receivedDateTime", " ", "lt", " ">> \o FormatRFC3339(opts.EndTime)

And == <<" ", "and", " ">>

\* C10: the $filter of ListMessagesWithPagination is the start-time clause,
\* the end-time clause and the caller's Filter, those that are supplied, in
\* that order and joined by " and "; without any clause no $filter is sent.
C10_FilterClausesInOrder ==
    LET q == ReqQuery IN
        MessagesRequested =>
            LET st == opts.StartTime # <<>>
                en == opts.EndTime # <<>>
                fi == opts.Filter # <<>>
            IN  /\ Has(q, pFilter) <=> (st \/ en \/ fi)
                /\ (st /\ en /\ fi) => Get(q, pFilter) = StartClause \o And \o EndClause \o And \o opts.Filter
                /\ (st /\ en /\ ~fi) => Get(q, pFilter) = StartClause \o And \o EndClause
                /\ (st /\ ~en /\ fi) => Get(q, pFilter) = StartClause \o And \o opts.Filter
                /\ (~st /\ en /\ fi) => Get(q, pFilter) = EndClause \o And \o opts.Filter
                /\ (st /\ ~en /\ ~fi) => Get(q, pFilter) = StartClause
                /\ (~st /\ en /\ ~fi) => Get(q, pFilter) = EndClause
                /\ (~st /\ ~en /\ fi) => Get(q, pFilter) = opts.Filter

\* All three clauses are supplied.
C10_Witness ==
    LET q == ReqQuery IN
        /\ MessagesRequested
        /\ opts.StartTime # <<>>
        /\ opts.EndTime # <<>>
        /\ opts.Filter # <<>>
        /\ Has(q, pFilter)

\* All-calendars mode has returned.
AllCalendarsReturned == pc = "done" /\ op = "calendarViewAllCalendars"

\* The enumeration of the calendars failed: the request or the decoding.
EnumerationFailed == calIdx = 0 /\ reply.kind # "ok"

\* For every event of the calendars that answered, the calendar it came from.
RECURSIVE Origins(_, _)
Origins(cals, rs) ==
    IF rs = <<>> THEN <<>>
    ELSE (IF Head(rs).kind = "ok" THEN [i \in 1..Len(Head(rs).value) |-> Head(cals)] ELSE <<>>)
         \o Origins(Tail(cals), Tail(rs))

\* C11: in all-calendars mode, once the calendars are enumerated, CalendarView
\* returns no error; every calendar has been asked once, and the response
\* holds, in enumeration order, the events of exactly the calendars whose
\* request succeeded, each marked with its calendar.
C11_SkipFailedCalendars ==
    (AllCalendarsReturned /\ ~EnumerationFailed) =>
        /\ response.kind = "ok"
        /\ Len(received) = Len(calendars)
        /\ IDsOf(response.Items) = IDsOf(ConcatOK(received))
        /\ [i \in 1..Len(response.Items) |-> response.Items[i].CalendarID] = Origins(calendars, received)

\* [A, B, C] with B failing: A's event, then C's.
C11_Witness ==
    /\ AllCalendarsReturned
    /\ calendars = <<<<"A">>, <<"B">>, <<"C">>>>
    /\ Len(received) = 3
    /\ received[1].kind = "ok" /\ received[1].value # <<>>
    /\ received[2].kind = "error"
    /\ received[3].kind = "ok" /\ received[3].value # <<>>
    /\ response.kind = "ok"
    /\ response.Items = <<[ID |-> received[1].value[1].ID, CalendarID |-> <<"A">>],
                          [ID |-> received[3].value[1].ID, CalendarID |-> <<"C">>]>>

\* C12: in all-calendars mode, when the enumeration of the calendars fails,
\* CalendarView returns an error and no response, and the enumeration is the
\* only request that was issued.
C12_EnumerationFailureIsFatal ==
    (AllCalendarsReturned /\ EnumerationFailed) =>
        /\ response.kind = "error"
        /\ requests = 1
        /\ received = <<>>
        /\ allEvents = <<>>

\* The calendar list could not be decoded.
C12_Witness ==
    /\ AllCalendarsReturned
    /\ reply.kind = "badjson"
    /\ calIdx = 0
    /\ response.kind = "error"
    /\ requests = 1

\* A step of all-calendars mode that issues a request.
AllCalendarsRequest == op' = "calendarViewAllCalendars" /\ requests' # requests

\* C24: all-calendars mode issues one list-calendars request first, then one
\* calendarView request per enumerated calendar, in enumeration order; a
\* request is issued only when the one before it has returned; a calendar
\* whose request failed is not asked again, and nothing is requested after
\* the last calendar.
C24_OneRequestPerCalendarInOrder ==
    /\ [][AllCalendarsRequest =>
            /\ requests' = requests + 1
            /\ ~request.sent
            /\ request'.sent
            /\ IF requests = 0
               THEN pc = "idle" /\ request'.target = ListCalendarsTarget
               ELSE /\ pc = "served"
                    /\ requests <= Len(calendars')
                    /\ Len(received') = requests - 1
                    /\ request'.target
                         = CalendarViewTarget(calOpts(opts', calendars'[requests]))]_vars
    /\ [](AllCalendarsReturned =>
            requests = IF EnumerationFailed THEN 1 ELSE Len(calendars) + 1)

\* Three calendars, the second failed: four requests in all.
C24_Witness ==
    /\ AllCalendarsReturned
    /\ Len(calendars) = 3
    /\ Len(received) = 3
    /\ received[2].kind = "error"
    /\ response.kind = "ok"
    /\ requests = 4

\* The calendars whose request returned a page.
Answered == {calendars[i] : i \in {j \in 1..Len(received) : received[j].kind = "ok"}}

\* C25: every event of an all-calendars response has the CalendarID of the
\* enumerated calendar whose request returned it, whatever calendarId the
\* server put in the event; no event has the ID of a calendar whose request
\* failed.
C25_EventsTaggedWithTheirCalendar ==
    (AllCalendarsReturned /\ response.kind = "ok") =>
        /\ Len(response.Items) = Len(Origins(calendars, received))
        /\ \A i \in 1..Len(response.Items) :
            /\ response.Items[i].CalendarID = Origins(calendars, received)[i]
            /\ response.Items[i].CalendarID \in Answered
            /\ response.Items[i].ID = ConcatOK(received)[i].ID

\* An event the server marked with another calendar came from calendar C,
\* after calendar A failed.
C25_Witness ==
    /\ AllCalendarsReturned
    /\ response.kind = "ok"
    /\ calendars = <<<<"A">>, <<"C">>>>
    /\ received[1].kind = "error"
    /\ received[2].kind = "ok"
    /\ received[2].value = <<[ID |-> "i2", CalendarID |-> <<"srv">>]>>
    /\ response.Items = <<[ID |-> "i2", CalendarID |-> <<"C">>]>>

\* A single-source list operation has built its request.
ListRequestBuilt == pc = "sent" /\ op \in SingleListOps

\* The caller supplied a page token or a positive skip offset.
PositionSupplied ==
    /\ ~opts.isNil
    /\ \/ opts.PageToken # <<>>
       \/ op = "ListMessagesWithPagination" /\ opts.Skip > 0

\* C27: no request of the four list operations has both $skip and
\* $skiptoken: with a page token or a positive skip offset exactly one of the
\* two is sent, and without either none is.
C27_SkipXorSkiptoken ==
    ListRequestBuilt =>
        LET q == ReqQuery
        IN  /\ ~(Has(q, pSkip) /\ Has(q, pSkiptoken))
            /\ PositionSupplied <=> (Has(q, pSkip) \/ Has(q, pSkiptoken))

\* Messages asked with both a page token and a skip offset: only the token is
\* sent.
C27_Witness ==
    /\ ListRequestBuilt
    /\ op = "ListMessagesWithPagination"
    /\ ~opts.isNil
    /\ opts.PageToken = <<"x", "-">>
    /\ opts.Skip = 3
    /\ Has(ReqQuery, pSkiptoken)
    /\ ~Has(ReqQuery, pSkip)

\* All-calendars mode has a request under way.
AllCalendarsRequested == pc = "sent" /\ op = "calendarViewAllCalendars"

\* C28: in all-calendars mode the caller's PageToken and UserID are ignored:
\* the enumeration asks for /me/calendars, and every request for a calendar
\* asks for that calendar of the signed-in user with the caller's
\* startDateTime, endDateTime and Top, and without $skip or $skiptoken.
C28_CallerTokenAndUserIgnored ==
    AllCalendarsRequested =>
        IF calIdx = 0 THEN request.target = <<"/", "me", "/", "calendars">>
        ELSE LET q == ReqQuery
             IN  /\ CutBefore(request.target, "?")
                        = <<"/", "me", "/", "calendars", "/">> \o calendars[calIdx]
                            \o <<"/", "calendarView">>
                 /\ Get(q, pStartDateTime) = opts.StartDateTime
                 /\ Get(q, pEndDateTime) = opts.EndDateTime
                 /\ Has(q, pTop) <=> opts.Top > 0
                 /\ opts.Top > 0 => Get(q, pTop) = Itoa(opts.Top)
                 /\ ~Has(q, pSkip)
                 /\ ~Has(q, pSkiptoken)

\* The second calendar is asked for a caller who gave a page token, a user
\* and a limit.
C28_Witness ==
    /\ AllCalendarsRequested
    /\ calIdx = 2
    /\ opts.PageToken = <<"1">>
    /\ opts.UserID = <<"id1">>
    /\ opts.Top = 2
    /\ Get(ReqQuery, pTop) = <<"2">>

\* C13: every response of all-calendars mode has HasMore false and an empty
\* NextPageToken, whatever continuation links the calendars' pages carried.
C13_AllCalendarsNeverPaginates ==
    (AllCalendarsReturned /\ response.kind = "ok") =>
        (~response.HasMore /\ response.NextPageToken = <<>>)

\* A calendar's page carried a continuation link and events.
C13_Witness ==
    /\ AllCalendarsReturned
    /\ response.kind = "ok"
    /\ response.Count > 0
    /\ ~response.HasMore
    /\ \E i \in 1..Len(received) :
        received[i].kind = "ok" /\ received[i].value # <<>> /\ received[i].nextLink # <<>>

\* C15: when the GET of a single-source list operation fails, the operation
\* returns the error of Client.Get as it is and nothing else, and a call of
\* such an operation issues exactly one request, whatever the answer.
C15_GetErrorReturnedAsIs ==
    /\ (op \in SingleListOps /\ pc \in {"sent", "served"}) => requests = 1
    /\ (op \in SingleListOps /\ reply.kind # "none") =>
        /\ pc = "done"
        /\ requests = 1
        /\ reply.kind = "error" => response = [kind |-> "error", err |-> reply.err]

\* ListItems was answered 404.
C15_Witness ==
    /\ pc = "done"
    /\ op = "ListItems"
    /\ reply.kind = "error"
    /\ reply.err.msg = "API request failed with status"
    /\ response.kind = "error"
    /\ response.err = reply.err
    /\ requests = 1

\* The call in progress lacks a required argument.
MissingArgument ==
    \/ op \in {"CalendarView", "calendarViewAllCalendars"}
         /\ (opts.isNil \/ opts.StartDateTime = <<>> \/ opts.EndDateTime = <<>>)
    \/ op = "GetMessage" /\ opts.ID = <<>>
    \/ op = "GetEvent" /\ (opts.isNil \/ opts.EventID = <<>>)
    \/ op = "SendMail" /\ (opts.isNil \/ opts.Subject = <<>> \/ opts.ToRecipients = <<>>)

\* C16: CalendarView, GetEvent, GetMessage and SendMail called without a
\* required argument return an error at once: no request is built and none
\* has been issued when the call returns.
C16_MissingArgumentRejected ==
    [][(pc = "idle" /\ pc' # "idle" /\ MissingArgument') =>
            (pc' = "done" /\ response'.kind = "error" /\ ~request'.sent /\ requests' = 0)]_vars

\* SendMail with a subject and no recipient.
C16_Witness ==
    /\ pc = "done"
    /\ op = "SendMail"
    /\ ~opts.isNil
    /\ opts.Subject # <<>>
    /\ opts.ToRecipients = <<>>
    /\ response.kind = "error"
    /\ response.err = "at least one recipient is required"
    /\ requests = 0

(***************************************************************************)
(* Specification of the HTTP client alone: a caller calls Client.Get or    *)
(* Client.Post, the HTTP layer produces an outcome, the call returns.      *)
(***************************************************************************)
PostData == {"nil", "json", "unmarshalable"}

GetCall ==
    /\ pc = "idle"
    /\ \E o \in Outcomes :
        /\ pc' = "done"
        /\ op' = "Get"
        /\ request' = [sent |-> TRUE, method |-> "GET", target |-> <<"/", "me">>]
        /\ requests' = requests + 1
        /\ reply' = o
        /\ response' = ClientGetResult(o)
        /\ UNCHANGED <<opts, aggr, nextLink, pageToken, cli>>

PostCall ==
    /\ pc = "idle"
    /\ \E data \in PostData :
        /\ pc' = "done"
        /\ op' = "Post"
        /\ opts' = [isNil |-> data = "nil", data |-> data]
        /\ IF data = "unmarshalable"
           THEN /\ response' = [kind |-> "error", err |-> [msg |-> "failed to marshal data"]]
                /\ UNCHANGED <<request, requests, reply>>
           ELSE \E o \in Outcomes :
                /\ request' = [sent |-> TRUE, method |-> "POST", target |-> <<"/", "me", "/", "sendMail">>]
                /\ requests' = requests + 1
                /\ reply' = o
                /\ response' = doJSONRequestResult(o)
        /\ UNCHANGED <<aggr, nextLink, pageToken, cli>>

Success2xx(o) == o.kind = "status" /\ o.status >= 200 /\ o.status <= 299

\* C14: Client.Get and Client.Post return the response body for every 2xx
\* status, and an error for every other status and every transport failure.
C14_BodyIffStatus2xx ==
    (pc = "done" /\ op \in {"Get", "Post"} /\ request.sent) =>
        /\ response.kind = "ok" <=> Success2xx(reply)
        /\ response.kind = "ok" => response.body = reply.body

(***************************************************************************)
(* Plugins (internal/plugin/plugin.go) and their dispatch in main          *)
(* (cmd/go365/main.go).  A file name is a sequence of atoms; PATH is a     *)
(* sequence of directory atoms and ":".  A directory is missing or holds   *)
(* entries: name, whether ReadDir reports a directory, whether os.Stat     *)
(* succeeds, and the permission bits and kind os.Stat reports.             *)
(***************************************************************************)
MaxPathLen == 3

Prefix == "go365-"

PathAtoms == {"/a", "/b", "rel", ":"}

PathEnvs == StrsUpTo(PathAtoms, MaxPathLen)

File(name, mode) ==
    [name |-> name, isDir |-> FALSE, statOK |-> TRUE, mode |-> mode, targetIsDir |-> FALSE]

Directory(name) ==
    [name |-> name, isDir |-> TRUE, statOK |-> TRUE, mode |-> 493, targetIsDir |-> TRUE]

DanglingLink(name) ==
    [name |-> name, isDir |-> FALSE, statOK |-> FALSE, mode |-> 0, targetIsDir |-> FALSE]

LinkToDirectory(name) ==
    [name |-> name, isDir |-> FALSE, statOK |-> TRUE, mode |-> 493, targetIsDir |-> TRUE]

Missing == [readable |-> FALSE, entries |-> {}]

\* Modes are written in decimal: 0755 = 493, 0644 = 420, 0100 = 64, 0001 = 1.
DirImages ==
    {Missing,
     [readable |-> TRUE, entries |-> {}],
     [readable |-> TRUE,
      entries |-> {File(<<Prefix, "foo">>, 493), File(<<"qux">>, 493), File(<<Prefix, "bar">>, 420)}],
     [readable |-> TRUE,
      entries |-> {File(<<Prefix, "foo">>, 64), Directory(<<Prefix, "bar">>),
                   File(<<Prefix, "mail">>, 493), File(<<"go365", "baz">>, 493)}],
     [readable |-> TRUE,
      entries |-> {File(<<Prefix, "bar">>, 1), DanglingLink(<<Prefix, "foo">>),
                   LinkToDirectory(<<Prefix, "baz">>)}]}

\* The directories /a and /b vary; the current directory, its subdirectory
\* rel and its subdirectory go365-sub are always the same.
FileSystems ==
    {[d \in {<<"/a">>, <<"/b">>, <<"rel">>, <<".">>, <<Prefix, "sub">>} |->
        CASE d = <<"/a">> -> a
          [] d = <<"/b">> -> b
          [] d = <<"rel">> -> [readable |-> TRUE, entries |-> {File(<<Prefix, "foo">>, 493)}]
          [] d = <<".">> -> [readable |-> TRUE, entries |-> {File(<<Prefix, "bar">>, 493)}]
          [] OTHER -> [readable |-> TRUE, entries |-> {File(<<"run">>, 493)}]] :
     a \in DirImages, b \in {Missing, [readable |-> TRUE, entries |-> {File(<<Prefix, "foo">>, 493)}]}}

Environs == [PATH : PathEnvs, fs : FileSystems]

ArgLists ==
    {<<>>, <<<<"foo">>>>, <<<<"foo">>, <<"x">>, <<"-", "v">>>>, <<<<"mail">>, <<"list">>>>,
     <<<<"-", "h">>>>, <<<<>>, <<"x">>>>, <<<<"bar">>, <<"y">>, <<"x">>>>,
     <<<<"sub", "/", "run">>, <<"x">>>>, <<<<"help">>, <<"x">>>>, <<<<"completion">>>>,
     <<<<"-", "x">>>>}

DirOf(fs, dir) == IF dir \in DOMAIN fs THEN fs[dir] ELSE Missing

\* strings.Split(s, ":"), for a non-empty s.
RECURSIVE Split(_)
Split(s) ==
    IF ~Contains(s, ":") THEN <<s>>
    ELSE <<CutBefore(s, ":")>> \o Split(CutAfter(s, ":"))

\* filepath.SplitList
SplitList(path) == IF path = <<>> THEN <<>> ELSE Split(path)

\* mode & 0111 != 0
Executable(mode) == (mode \div 64) % 2 = 1 \/ (mode \div 8) % 2 = 1 \/ mode % 2 = 1

HasPrefix(name) == name # <<>> /\ Head(name) = Prefix

TrimPrefix(name) == IF HasPrefix(name) THEN Tail(name) ELSE name

\* A variant with a slip: directories are listed too.
ListedWithDirectories(env) ==
    IF env.PATH = <<>> THEN {}
    ELSE LET dirs == Split(env.PATH)
         IN  {TrimPrefix(e.name) :
                e \in {f \in UNION {DirOf(env.fs, dirs[i]).entries : i \in 1..Len(dirs)} :
                         HasPrefix(f.name) /\ f.statOK /\ Executable(f.mode)}}

\* The plugins map of ListPlugins when it has gone through PATH.
PluginsIn(env) ==
    IF env.PATH = <<>> THEN {}
    ELSE LET dirs == Split(env.PATH)
         IN  {TrimPrefix(e.name) :
                e \in {f \in UNION {DirOf(env.fs, dirs[i]).entries : i \in 1..Len(dirs)} :
                         /\ HasPrefix(f.name)
                         /\ ~f.isDir
                         /\ f.statOK
                         /\ Executable(f.mode)}}

\* The orders in which ranging over a map may deliver its keys.
Orderings(S) ==
    {q \in [1..Cardinality(S) -> S] : \A i, j \in 1..Cardinality(S) : q[i] = q[j] => i = j}

\* os/exec findExecutable: the file exists, is not a directory and has an
\* execute bit.
findExecutable(fs, dir, base) ==
    \E e \in DirOf(fs, dir).entries :
        e.name = base /\ e.statOK /\ ~e.targetIsDir /\ Executable(e.mode)

LastSlash(file) == CHOOSE i \in 1..Len(file) : file[i] = "/" /\ \A j \in (i + 1)..Len(file) : file[j] # "/"

IsAbs(dir) == dir # <<>> /\ Head(dir) \in {"/a", "/b"}

\* The loop of exec.LookPath over the directories of PATH: an empty element
\* is the current directory, and a match in a relative directory is an
\* error (exec.ErrDot).
RECURSIVE LookIn(_, _, _)
LookIn(fs, dirs, file) ==
    IF dirs = <<>> THEN [err |-> TRUE]
    ELSE LET dir == IF Head(dirs) = <<>> THEN <<".">> ELSE Head(dirs)
         IN  IF findExecutable(fs, dir, file)
             THEN IF IsAbs(dir) THEN [err |-> FALSE, dir |-> dir, name |-> file]
                  ELSE [err |-> TRUE]
             ELSE LookIn(fs, Tail(dirs), file)

\* exec.LookPath: a name with a slash is tried as it is, without PATH.
LookPath(env, file) ==
    IF Contains(file, "/")
    THEN LET dir  == SubSeq(file, 1, LastSlash(file) - 1)
             base == SubSeq(file, LastSlash(file) + 1, Len(file))
         IN  IF findExecutable(env.fs, dir, base)
             THEN [err |-> FALSE, dir |-> dir, name |-> base]
             ELSE [err |-> TRUE]
    ELSE LookIn(env.fs, SplitList(env.PATH), file)

FindPlugin(env, name) == LookPath(env, <<Prefix>> \o name)

\* rootCmd.Commands() when main starts.
Builtins ==
    {<<"login">>, <<"logout">>, <<"status">>, <<"config">>, <<"plugins">>, <<"mail">>,
     <<"calendar">>}

\* A variant with a slip: the built-in commands are not looked at.
tryPluginAlways(a) == a # <<>> /\ a[1] # <<>> /\ Head(a[1]) # "-"

\* main tries a plugin.
tryPlugin(a) == a # <<>> /\ a[1] \notin Builtins /\ a[1] # <<>> /\ Head(a[1]) # "-"

NoPlugin == [kind |-> "main", lookedUp |-> FALSE, ran |-> FALSE, cobra |-> TRUE]

\* The commands cobra adds to rootCmd when Execute starts.
CobraCommands == {<<"help">>, <<"completion">>}

\* rootCmd.Execute() and the exit status main ends with: os.Exit(1) when
\* Execute returns an error.  cmdOK is the outcome of a built-in command.
rootCmdExecute(a, cmdOK) ==
    IF a = <<>> THEN [report |-> "help", status |-> 0]
    ELSE IF a[1] \in Builtins
    THEN [report |-> "command", status |-> IF cmdOK THEN 0 ELSE 1]
    ELSE IF a[1] \in CobraCommands THEN [report |-> "help", status |-> 0]
    ELSE IF a[1] = <<>> THEN [report |-> "none", status |-> 0]
    ELSE IF Head(a[1]) = "-"
    THEN IF a[1] \in {<<"-", "h">>, <<"-", "-", "help">>}
         THEN [report |-> "help", status |-> 0]
         ELSE [report |-> "unknown flag", status |-> 1]
    ELSE [report |-> "unknown command", status |-> 1]

\* A variant with a slip: main returns after any plugin that was found.
fallThroughWhenNotFound(found, ranOK) == found.err

\* if err := plugin.ExecutePlugin(...); err == nil { return }
fallThrough(found, ranOK) == found.err \/ ~ranOK

\* main: the plugin, when one is tried and found, runs and ends well or
\* not; rootCmd.Execute runs unless a plugin ended well.
main ==
    /\ pc = "idle"
    /\ pc' = "done"
    /\ op' = "main"
    /\ \E ranOK \in BOOLEAN, cmdOK \in BOOLEAN :
        LET tried  == tryPlugin(args)
            found  == IF tried THEN FindPlugin(environ, args[1]) ELSE [err |-> TRUE]
            cobra  == ~tried \/ fallThrough(found, ranOK)
            ended  == IF cobra THEN rootCmdExecute(args, cmdOK)
                      ELSE [report |-> "none", status |-> 0]
        IN  response' = IF found.err
                        THEN [kind |-> "main", lookedUp |-> tried, ran |-> FALSE, cobra |-> cobra,
                              report |-> ended.report, status |-> ended.status]
                        ELSE [kind |-> "main", lookedUp |-> TRUE, ran |-> TRUE, ranOK |-> ranOK,
                              dir |-> found.dir, name |-> found.name, args |-> Tail(args),
                              cobra |-> cobra, report |-> ended.report,
                              status |-> ended.status]
    /\ UNCHANGED <<opts, request, reply, aggr, nextLink, pageToken, requests, cli>>

ListPlugins ==
    /\ pc = "idle"
    /\ pc' = "done"
    /\ op' = "ListPlugins"
    /\ \E result \in Orderings(PluginsIn(environ)) :
        response' = [kind |-> "ok", plugins |-> result]
    /\ UNCHANGED <<opts, request, reply, aggr, nextLink, pageToken, requests, cli>>

mainReturned == pc = "done" /\ op = "main"

StartsWithDash(a) == a # <<>> /\ Head(a) = "-"

\* The directories of PATH, as written, that hold an executable file.
PathHits(file) ==
    LET dirs == SplitList(environ.PATH)
    IN  {i \in 1..Len(dirs) : findExecutable(environ.fs, dirs[i], file)}

TriedDirs ==
    LET dirs == SplitList(environ.PATH)
    IN  [i \in 1..Len(dirs) |-> IF dirs[i] = <<>> THEN <<".">> ELSE dirs[i]]

ListPluginsReturned == pc = "done" /\ op = "ListPlugins"

\* Every name that could be listed: the entries' names, with and without
\* their first atom, and what was listed.
Candidates ==
    LET all == UNION {environ.fs[d].entries : d \in DOMAIN environ.fs}
    IN  {e.name : e \in all} \cup {Tail(e.name) : e \in all}
        \cup {response.plugins[i] : i \in 1..Len(response.plugins)}

\* C18: ListPlugins returns no error and no name twice; n is listed exactly
\* when a directory named in PATH can be read and holds an entry go365-n that
\* is not a directory and has an execute bit; an empty PATH gives the empty
\* list.
C18_ListedPlugins ==
    ListPluginsReturned =>
        LET dirs == SplitList(environ.PATH)
        IN  /\ response.kind = "ok"
            /\ \A i, j \in 1..Len(response.plugins) : response.plugins[i] = response.plugins[j] => i = j
            /\ \A n \in Candidates :
                (\E i \in 1..Len(response.plugins) : response.plugins[i] = n)
                <=> \E k \in 1..Len(dirs) :
                        /\ DirOf(environ.fs, dirs[k]).readable
                        /\ \E e \in DirOf(environ.fs, dirs[k]).entries :
                                /\ e.name = <<Prefix>> \o n
                                /\ ~e.isDir
                                /\ e.statOK
                                /\ Executable(e.mode)
            /\ environ.PATH = <<>> => response.plugins = <<>>

\* go365-foo is in /a and in /b, next to a file without the prefix and a
\* go365-bar that is not executable: foo is listed once, and alone.
C18_Witness ==
    /\ ListPluginsReturned
    /\ environ.PATH = <<"/a", ":", "/b">>
    /\ File(<<Prefix, "foo">>, 493) \in environ.fs[<<"/a">>].entries
    /\ File(<<Prefix, "bar">>, 420) \in environ.fs[<<"/a">>].entries
    /\ File(<<Prefix, "foo">>, 493) \in environ.fs[<<"/b">>].entries
    /\ response.plugins = <<<<"foo">>>>

(***************************************************************************)
(* ConfigManager (config.go).  Save writes the configuration as JSON, Load *)
(* reads it back.  A string is a sequence of characters: "xFF" is a byte   *)
(* that is not valid UTF-8, "uFFFD" is the Unicode replacement character.  *)
(* The file holds, for each field that is not omitted, the JSON text of    *)
(* its value; written is the configuration it was produced from.           *)
(***************************************************************************)
DefaultScope == <<"https://graph.microsoft.com/.default">>

\* json.Marshal of one character of a string.
MarshalChar(c) ==
    CASE c = "\"" -> <<"\\", "\"">>
      [] c = "\\" -> <<"\\", "\\">>
      [] c = "<" -> <<"\\", "u", "0", "0", "3", "c">>
      [] c = "xFF" -> <<"\\", "u", "f", "f", "f", "d">>
      [] OTHER -> <<c>>

RECURSIVE MarshalString(_)
MarshalString(str) ==
    IF str = <<>> THEN <<>> ELSE MarshalChar(Head(str)) \o MarshalString(Tail(str))

\* The character a \uXXXX escape stands for.
Unquote4(hex) ==
    IF hex = <<"0", "0", "3", "c">> THEN "<"
    ELSE IF hex = <<"f", "f", "f", "d">> THEN "uFFFD"
    ELSE "?"

RECURSIVE UnmarshalString(_)
UnmarshalString(text) ==
    IF text = <<>> THEN <<>>
    ELSE IF Head(text) = "\\"
    THEN IF text[2] = "u"
         THEN <<Unquote4(SubSeq(text, 3, 6))>> \o UnmarshalString(SubSeq(text, 7, Len(text)))
         ELSE <<text[2]>> \o UnmarshalString(SubSeq(text, 3, Len(text)))
    ELSE <<Head(text)>> \o UnmarshalString(Tail(text))

ConfigStrings == {<<>>, <<"a">>, <<"\"", "<">>, <<"a", "\\">>, <<"xFF", "a">>, <<"uFFFD">>}

ScopeLists ==
    {<<>>, <<DefaultScope>>, <<<<"Mail.Read">>, <<"a", "<">>>>, <<<<>>>>, <<<<"xFF">>>>}

Configs ==
    {NilOptions} \cup
    [isNil : {FALSE}, TenantID : ConfigStrings, ClientID : {<<>>, <<"c", "\"">>}, Scopes : ScopeLists]

\* json.MarshalIndent(config): empty fields are omitted, a nil pointer is null.
MarshalConfig(c) ==
    IF c.isNil THEN [null |-> TRUE]
    ELSE [null |-> FALSE,
          keys |-> (IF c.TenantID # <<>> THEN {"tenant_id"} ELSE {})
                   \cup (IF c.ClientID # <<>> THEN {"client_id"} ELSE {})
                   \cup (IF Len(c.Scopes) # 0 THEN {"scopes"} ELSE {}),
          tenant_id |-> MarshalString(c.TenantID),
          client_id |-> MarshalString(c.ClientID),
          scopes |-> [i \in 1..Len(c.Scopes) |-> MarshalString(c.Scopes[i])]]

\* json.Unmarshal(data, &config) into a zero Config.
UnmarshalConfig(doc) ==
    IF doc.null THEN [TenantID |-> <<>>, ClientID |-> <<>>, Scopes |-> <<>>]
    ELSE [TenantID |-> IF "tenant_id" \in doc.keys THEN UnmarshalString(doc.tenant_id) ELSE <<>>,
          ClientID |-> IF "client_id" \in doc.keys THEN UnmarshalString(doc.client_id) ELSE <<>>,
          Scopes |-> IF "scopes" \in doc.keys
                     THEN [i \in 1..Len(doc.scopes) |-> UnmarshalString(doc.scopes[i])]
                     ELSE <<>>]

\* Save: os.WriteFile writes the file, fails before it touches it, or fails
\* after it has truncated it.
Save ==
    /\ pc = "idle"
    /\ pc' = "done"
    /\ op' = "Save"
    /\ \E c \in Configs, written \in {"all", "nothing", "part"} :
        /\ opts' = c
        /\ configFile' = IF written = "all"
                         THEN [exists |-> TRUE, valid |-> TRUE, doc |-> MarshalConfig(c), written |-> c]
                         ELSE IF written = "part" THEN [exists |-> TRUE, valid |-> FALSE]
                         ELSE configFile
        /\ response' = IF written = "all" THEN [kind |-> "ok"]
                       ELSE [kind |-> "error", err |-> "failed to write config"]
    /\ UNCHANGED <<request, reply, aggr, nextLink, pageToken, requests, environ, args, stdout, server,
                 agent, batch>>

\* A variant with a slip: the default scope is not put in when the file has
\* no scopes.
LoadResultAsRead(file, readable) ==
    IF ~file.exists THEN [kind |-> "ok", TenantID |-> <<>>, ClientID |-> <<>>, Scopes |-> <<DefaultScope>>]
    ELSE IF ~readable THEN [kind |-> "error", err |-> "failed to read config"]
    ELSE IF ~file.valid THEN [kind |-> "error", err |-> "failed to unmarshal config"]
    ELSE LET config == UnmarshalConfig(file.doc)
         IN  [kind |-> "ok", TenantID |-> config.TenantID, ClientID |-> config.ClientID,
              Scopes |-> config.Scopes]

LoadResult(file, readable) ==
    IF ~file.exists THEN [kind |-> "ok", TenantID |-> <<>>, ClientID |-> <<>>, Scopes |-> <<DefaultScope>>]
    ELSE IF ~readable THEN [kind |-> "error", err |-> "failed to read config"]
    ELSE IF ~file.valid THEN [kind |-> "error", err |-> "failed to unmarshal config"]
    ELSE LET config == UnmarshalConfig(file.doc)
         IN  [kind |-> "ok", TenantID |-> config.TenantID, ClientID |-> config.ClientID,
              Scopes |-> IF Len(config.Scopes) = 0 THEN <<DefaultScope>> ELSE config.Scopes]

\* Load: the file is missing, cannot be read, or is read and decoded.
Load ==
    /\ pc = "idle"
    /\ pc' = "done"
    /\ op' = "Load"
    /\ \E readable \in BOOLEAN : response' = LoadResult(configFile, readable)
    /\ UNCHANGED <<opts, request, reply, aggr, nextLink, pageToken, requests, cli>>

Loaded == pc = "done" /\ op = "Load" /\ response.kind = "ok"

\* The file is what a Save of a configuration left.
Saved == configFile.exists /\ configFile.valid /\ ~configFile.written.isNil

ScopesOrDefault(c) == IF c.Scopes = <<>> THEN <<DefaultScope>> ELSE c.Scopes

\* C19 as stated: a Load after Save(c) returns c's TenantID, ClientID and
\* Scopes, the default scope standing in for an empty Scopes; without a file
\* Load returns the default scope; every successful Load has scopes.
C19_SaveLoadRoundTrip ==
    /\ (Loaded /\ Saved) =>
            /\ response.TenantID = configFile.written.TenantID
            /\ response.ClientID = configFile.written.ClientID
            /\ response.Scopes = ScopesOrDefault(configFile.written)
    /\ (pc = "done" /\ op = "Load" /\ ~configFile.exists) =>
            (response.kind = "ok" /\ response.Scopes = <<DefaultScope>>)
    /\ Loaded => response.Scopes # <<>>

\* json.Marshal writes the replacement character for every byte that is not
\* valid UTF-8.
RECURSIVE ToValidUTF8(_)
ToValidUTF8(str) ==
    IF str = <<>> THEN <<>>
    ELSE <<IF Head(str) = "xFF" THEN "uFFFD" ELSE Head(str)>> \o ToValidUTF8(Tail(str))

\* C19, amended: a Load after Save(c) returns c's TenantID, ClientID and
\* Scopes with every byte that is not valid UTF-8 replaced by U+FFFD (so the
\* strings themselves when they are valid UTF-8), the default scope standing
\* in for an empty Scopes; without a file Load returns the default scope;
\* every successful Load has scopes.
C19_SaveLoadRoundTripUTF8 ==
    /\ (Loaded /\ Saved) =>
            LET c == configFile.written
            IN  /\ response.TenantID = ToValidUTF8(c.TenantID)
                /\ response.ClientID = ToValidUTF8(c.ClientID)
                /\ response.Scopes = [i \in 1..Len(ScopesOrDefault(c)) |-> ToValidUTF8(ScopesOrDefault(c)[i])]
    /\ (pc = "done" /\ op = "Load" /\ ~configFile.exists) =>
            (response.kind = "ok" /\ response.Scopes = <<DefaultScope>>)
    /\ Loaded => response.Scopes # <<>>

\* A configuration with quotes, "<" and no scopes was saved and loaded.
C19_Witness ==
    /\ Loaded
    /\ Saved
    /\ configFile.written.TenantID = <<"\"", "<">>
    /\ configFile.written.Scopes = <<>>
    /\ response.TenantID = <<"\"", "<">>
    /\ response.Scopes = <<DefaultScope>>

(***************************************************************************)
(* Output helpers of the command line (internal/output).  stdout is the    *)
(* text the writer w has been handed.                                      *)
(***************************************************************************)
MaxHintLen == 2

HintTokens == StrsUpTo({"a", " ", "%", "\n"}, MaxHintLen)

ListValues == {<<>>, <<"a">>, <<"a", "b", "c">>}

ListCounts == {-1, 0, 1, 3}

WriterTexts == {<<>>, <<"x", "\n">>}

\* A variant with a slip: HasMore is taken from the count.
FormatListResponseByCount(value, count, nextPageToken) ==
    [kind |-> "list", Value |-> value, Count |-> count, HasMore |-> count > 0,
     NextPageToken |-> IF nextPageToken # <<>>
                       THEN [isNil |-> FALSE, value |-> nextPageToken]
                       ELSE [isNil |-> TRUE]]

FormatListResponse(value, count, nextPageToken) ==
    [kind |-> "list", Value |-> value, Count |-> count, HasMore |-> nextPageToken # <<>>,
     NextPageToken |-> IF nextPageToken # <<>>
                       THEN [isNil |-> FALSE, value |-> nextPageToken]
                       ELSE [isNil |-> TRUE]]

\* fmt.Fprintf(w, "\nNext page: --page-token %s\n", token): the text of w
\* after the call.
PrintNextPageHint(w, token) ==
    IF token # <<>>
    THEN w \o <<"\n", "Next page:", " ", "--page-token", " ">> \o token \o <<"\n">>
    ELSE w

FormatListResponseCall ==
    /\ pc = "idle"
    /\ pc' = "done"
    /\ op' = "FormatListResponse"
    /\ \E value \in ListValues, count \in ListCounts, t \in HintTokens :
        /\ opts' = [isNil |-> FALSE, value |-> value, count |-> count, token |-> t]
        /\ response' = FormatListResponse(value, count, t)
    /\ UNCHANGED <<request, reply, aggr, nextLink, pageToken, requests, cli>>

PrintNextPageHintCall ==
    /\ pc = "idle"
    /\ pc' = "done"
    /\ op' = "PrintNextPageHint"
    /\ \E w \in WriterTexts, t \in HintTokens :
        /\ opts' = [isNil |-> FALSE, w |-> w, token |-> t]
        /\ stdout' = PrintNextPageHint(w, t)
    /\ response' = [kind |-> "none"]
    /\ UNCHANGED <<request, reply, aggr, nextLink, pageToken, requests, environ, args, configFile,
                 server, agent, batch>>

\* strings.Contains(s, substr).
ContainsStr(s, substr) ==
    \E i \in 0..(Len(s) - Len(substr)) : SubSeq(s, i + 1, i + Len(substr)) = substr

\* The text written by the call: what stdout holds after the text w held.
Written == SubSeq(stdout, Len(opts.w) + 1, Len(stdout))

\* C20: FormatListResponse(v, c, t) has HasMore true and NextPageToken t
\* exactly when t is not empty, and HasMore false without NextPageToken when
\* it is empty, whatever v and c are; PrintNextPageHint writes a line
\* containing "--page-token t" exactly when t is not empty, and nothing
\* otherwise.
C20_IndicatorsFollowToken ==
    /\ (pc = "done" /\ op = "FormatListResponse") =>
            /\ response.Value = opts.value
            /\ response.Count = opts.count
            /\ response.HasMore = (opts.token # <<>>)
            /\ response.NextPageToken.isNil = (opts.token = <<>>)
            /\ opts.token # <<>> => response.NextPageToken.value = opts.token
    /\ (pc = "done" /\ op = "PrintNextPageHint") =>
            /\ SubSeq(stdout, 1, Len(opts.w)) = opts.w
            /\ opts.token = <<>> => Written = <<>>
            /\ opts.token # <<>> =>
                    /\ ContainsStr(Written, <<"--page-token", " ">> \o opts.token)
                    /\ Written[Len(Written)] = "\n"

\* A response with a token and no items, after a hint was written behind
\* other text.
C20_Witness ==
    /\ pc = "done"
    /\ op = "FormatListResponse"
    /\ opts.count = 0
    /\ opts.token = <<"a", " ">>
    /\ response.HasMore
    /\ stdout = <<"x", "\n", "\n", "Next page:", " ", "--page-token", " ", "%", "a", "\n">>

(***************************************************************************)
(* The list commands of the command line (cmd/go365/main.go): mail list,   *)
(* calendar list, calendar events.  Each run is one process: it reads its  *)
(* flags, calls the library once, and writes the page to its own stdout,   *)
(* as JSON with --json and as text otherwise.                              *)
(***************************************************************************)
ListCmds == {"mail list", "calendar list", "calendar events"}

\* output.WriteJSON(os.Stdout, listResp): NextPageToken is omitted when nil.
WriteJSON(listResp) ==
    <<"{", "\"value\":", "[">> \o listResp.Value \o <<"]", "\"count\":">> \o Itoa(listResp.Count)
        \o <<"\"hasMore\":", IF listResp.HasMore THEN "true" ELSE "false">>
        \o (IF listResp.NextPageToken.isNil THEN <<>>
            ELSE <<"\"nextPageToken\":", "\"">> \o MarshalString(listResp.NextPageToken.value) \o <<"\"">>)
        \o <<"}", "\n">>

\* The lines printed for one item: its ID, for an event of calendar list its
\* calendar when it has one, and the separator.
RECURSIVE PrintItems(_, _)
PrintItems(ids, cals) ==
    IF ids = <<>> THEN <<>>
    ELSE <<"ID: ", Head(ids), "\n">>
            \o (IF Head(cals) # <<>> THEN <<"Calendar: ">> \o Head(cals) \o <<"\n">> ELSE <<>>)
            \o <<"---", "\n">> \o PrintItems(Tail(ids), Tail(cals))

\* What a list command writes for the page resp whose items have the IDs ids.
RenderList(ids, cals, resp, jsonOutput, none) ==
    IF jsonOutput THEN WriteJSON(FormatListResponse(ids, resp.Count, resp.NextPageToken))
    ELSE IF Len(ids) = 0 THEN <<none, "\n">>
    ELSE PrintNextPageHint(PrintItems(ids, cals), resp.NextPageToken)

\* The result of a command: the error it returns, or the library's response,
\* and its output.
ListCmdResult(resp, wrap, out) ==
    IF resp.kind = "error"
    THEN [response |-> [kind |-> "error", err |-> <<wrap, resp.err>>], stdout |-> <<>>]
    ELSE [response |-> resp, stdout |-> out]

NoCalendars(items) == [i \in 1..Len(items) |-> <<>>]

\* --folder-id, --top, --skip, --page-token as ListMessagesOptions.
mailListOptions(flags) ==
    [isNil |-> FALSE, FolderID |-> flags.folderID, Top |-> flags.top, Skip |-> flags.skip,
     PageToken |-> flags.pageToken, Filter |-> <<>>, OrderBy |-> <<>>,
     StartTime |-> <<>>, EndTime |-> <<>>]

\* mail list, given the server's answer r to its request.
mailListRun(flags, r) ==
    LET resp == ListMessagesResponse(r)
    IN  ListCmdResult(resp, "failed to list messages",
                      IF resp.kind = "ok"
                      THEN RenderList(resp.Items, NoCalendars(resp.Items), resp, flags.json,
                                      "No messages found")
                      ELSE <<>>)

\* The events of the calendars 1..n, as calendarViewAllCalendars collects them.
RECURSIVE CollectEvents(_, _, _)
CollectEvents(cals, rs, n) ==
    IF n = 0 THEN <<>>
    ELSE appendEvents(CollectEvents(cals, rs, n - 1), CalendarViewSingleResponse(rs[n]), cals[n])

\* CalendarView as calendar list calls it: one calendar, or all of them.
CalendarViewResult(allCalendars, r, cr, rs) ==
    IF ~allCalendars THEN CalendarViewSingleResponse(r)
    ELSE IF ListCalendarsResult(cr).kind # "ok"
    THEN [kind |-> "error", err |-> <<"failed to list calendars", ListCalendarsResult(cr).err>>]
    ELSE AllCalendarsResponse(CollectEvents(cr.value, rs, Len(cr.value)))

eventsRun(resp, jsonOutput) ==
    ListCmdResult(resp, "failed to list events",
                  IF resp.kind = "ok"
                  THEN RenderList(IDsOf(resp.Items),
                                  [i \in 1..Len(resp.Items) |-> resp.Items[i].CalendarID],
                                  resp, jsonOutput, "No events found")
                  ELSE <<>>)

\* calendar events prints no calendar line.
calendarEventsRun(resp, jsonOutput) ==
    ListCmdResult(resp, "failed to list events",
                  IF resp.kind = "ok"
                  THEN RenderList(IDsOf(resp.Items), NoCalendars(resp.Items), resp, jsonOutput,
                                  "No events found")
                  ELSE <<>>)

\* A command that cannot load its configuration or is not signed in returns
\* an error before it calls the library.
NotReady == [response |-> [kind |-> "error", err |-> "not authenticated"], stdout |-> <<>>]

MailFlags ==
    [folderID : {<<>>}, top : {0, 2}, skip : {0, 3}, pageToken : {<<>>, <<"x">>}, json : BOOLEAN]

CalendarFlags ==
    [dates : {"default", "invalid"}, calendarID : IDs, allCalendars : BOOLEAN, top : {0},
     pageToken : {<<>>, <<"1">>}, user : {<<>>}, json : BOOLEAN]

EventsFlags == [calendarID : IDs, top : {0, 2}, pageToken : {<<>>, <<"1">>}, json : BOOLEAN]

\* The calendars' answers in a run of calendar list --all-calendars.
CmdCalReplies ==
    {[kind |-> "badjson"], [kind |-> "ok", value |-> <<>>, nextLink |-> <<>>],
     [kind |-> "ok", value |-> <<[ID |-> "i1", CalendarID |-> <<>>]>>,
      nextLink |-> SyntheticLinkWithCursorParam(<<"x">>)]}

Finish(name, flags, result) ==
    /\ pc' = "done"
    /\ op' = name
    /\ opts' = flags
    /\ response' = result.response
    /\ stdout' = result.stdout
    /\ UNCHANGED <<request, reply, aggr, nextLink, pageToken, requests, environ, args, configFile,
                 server, agent, batch>>

mailListCmd ==
    /\ pc = "idle"
    /\ \E flags \in MailFlags, ready \in BOOLEAN, r \in Replies :
        Finish("mail list", flags, IF ready THEN mailListRun(flags, r) ELSE NotReady)

calendarListCmd ==
    /\ pc = "idle"
    /\ \E flags \in CalendarFlags, ready \in BOOLEAN :
        IF ~ready THEN Finish("calendar list", flags, NotReady)
        ELSE IF flags.dates = "invalid"
        THEN Finish("calendar list", flags,
                    [response |-> [kind |-> "error", err |-> "invalid start date"], stdout |-> <<>>])
        ELSE IF flags.allCalendars
        THEN \E cr \in CalendarsReplies, rs \in [1..MaxCals -> CmdCalReplies] :
                Finish("calendar list", flags,
                       eventsRun(CalendarViewResult(TRUE, cr, cr, rs), flags.json))
        ELSE \E r \in EventReplies :
                Finish("calendar list", flags,
                       eventsRun(CalendarViewResult(FALSE, r, r, <<>>), flags.json))

calendarEventsCmd ==
    /\ pc = "idle"
    /\ \E flags \in EventsFlags, ready \in BOOLEAN, r \in EventReplies :
        Finish("calendar events", flags,
               IF ready THEN calendarEventsRun(ListEventsResponse(r), flags.json) ELSE NotReady)

\* The process ends and its output has been read: the next command runs in a
\* new process.
Exit ==
    /\ pc = "done"
    /\ op \in ListCmds
    /\ pc' = "idle"
    /\ op' = "none"
    /\ opts' = NilOptions
    /\ response' = [kind |-> "none"]
    /\ stdout' = <<>>
    /\ UNCHANGED <<request, reply, aggr, nextLink, pageToken, requests, environ, args, configFile,
                 server, agent, batch>>

\* A list command has printed a page.
Listed == pc = "done" /\ op \in ListCmds /\ response.kind = "ok"

\* The output says that there are more results and carries the token.
ReportsMore ==
    IF opts.json
    THEN ContainsStr(stdout, <<"\"hasMore\":", "true", "\"nextPageToken\":", "\"">>
                                \o MarshalString(response.NextPageToken) \o <<"\"">>)
    ELSE ContainsStr(stdout, <<"Next page:", " ", "--page-token", " ">> \o response.NextPageToken)

\* The output says nothing of more results.
ReportsNoMore ==
    /\ ~ContainsStr(stdout, <<"\"hasMore\":", "true">>)
    /\ ~ContainsStr(stdout, <<"\"nextPageToken\":">>)
    /\ ~ContainsStr(stdout, <<"--page-token">>)

\* C21: every list command reports more results exactly when the library's
\* response has HasMore true: then the JSON output has hasMore true and the
\* text output has a next-page hint with the token; when HasMore is false
\* neither is produced.
C21_MoreReportedIffHasMore ==
    Listed => IF response.HasMore THEN ReportsMore ELSE ReportsNoMore

(***************************************************************************)
(* The paging script of the design ("Agent Workflow"): run mail list       *)
(* --json, take nextPageToken from the output, and run it again with       *)
(* --page-token until the token is empty.  The server holds a sequence of  *)
(* pages; every page but the last names the next one in its nextLink, by a *)
(* $skiptoken or by a $skip offset.                                        *)
(***************************************************************************)
MaxPages == 3

\* How a page names its successor.
Continuations ==
    [kind : {"skiptoken"}, value : {<<"x">>, <<"x", "+">>, <<"1", "x">>}]
        \cup [kind : {"skip"}, value : {<<"2">>, <<"1", "0">>}]

NoContinuation == [kind |-> "none", value |-> <<>>]

PageValues == {<<>>, <<"i1">>, <<"i1", "i2">>}

\* The sequences of up to MaxPages pages: no two pages name the same successor
\* and only the last one names none.
Servers ==
    {sv \in UNION {[1..n -> [value : PageValues, next : Continuations \cup {NoContinuation}]] :
                        n \in 1..MaxPages} :
        /\ \A i \in 1..Len(sv) : (sv[i].next = NoContinuation) <=> (i = Len(sv))
        /\ \A i, j \in 1..Len(sv) : sv[i].next = sv[j].next => i = j}

\* The nextLink the server writes for a continuation.
LinkTo(c) ==
    IF c.kind = "none" THEN <<>>
    ELSE IF c.kind = "skiptoken" THEN SyntheticLinkWithCursorParam(c.value)
    ELSE BaseURL \o <<"?">> \o pSkip \o <<"=">> \o c.value \o <<"&">> \o pTop \o <<"=", "2">>

\* The body of page i.
PageReply(sv, i) == [kind |-> "ok", value |-> sv[i].value, nextLink |-> LinkTo(sv[i].next)]

\* The continuation a request asks for.
Asked(target) ==
    LET q == ParseQuery(ParseURL(target).RawQuery)
    IN  IF Has(q, pSkiptoken) THEN [kind |-> "skiptoken", value |-> Get(q, pSkiptoken)]
        ELSE IF Has(q, pSkip) THEN [kind |-> "skip", value |-> Get(q, pSkip)]
        ELSE NoContinuation

\* The server's answer: the first page to a request without continuation, the
\* page a continuation names, 400 Bad Request to a continuation it never
\* issued.
Serve(sv, target) ==
    LET c == Asked(target)
    IN  IF c = NoContinuation THEN PageReply(sv, 1)
        ELSE IF \E i \in 1..(Len(sv) - 1) : sv[i].next = c
        THEN PageReply(sv, 1 + CHOOSE i \in 1..(Len(sv) - 1) : sv[i].next = c)
        ELSE [kind |-> "error",
              err |-> ClientGetResult([kind |-> "status", status |-> 400, body |-> <<>>]).err]

\* jq -r '.nextPageToken // empty' on the output of the command.
jqNextPageToken(out) ==
    IF Contains(out, "\"nextPageToken\":")
    THEN UnmarshalString(SubSeq(out, IndexOf(out, "\"nextPageToken\":") + 2, Len(out) - 3))
    ELSE <<>>

\* One turn of the script: go365 mail list --top 2 --json, with --page-token
\* after the first turn.
AgentMailList ==
    /\ pc = "idle"
    /\ LET flags  == [folderID |-> <<>>, top |-> 2, skip |-> 0, pageToken |-> agent.token,
                      json |-> TRUE]
           r      == Serve(server, ListMessagesTarget(mailListOptions(flags)))
           result == mailListRun(flags, r)
           token  == jqNextPageToken(result.stdout)
       IN  /\ op' = "mail list"
           /\ opts' = flags
           /\ reply' = r
           /\ response' = result.response
           /\ stdout' = result.stdout
           /\ agent' = [token |-> token,
                        fetched |-> IF r.kind = "ok" THEN Append(agent.fetched, r)
                                    ELSE agent.fetched]
           /\ pc' = IF token = <<>> THEN "finished" ELSE "idle"
    /\ UNCHANGED <<request, aggr, nextLink, pageToken, requests, environ, args, configFile, server, batch>>

InitWorkflow ==
    /\ Idle
    /\ nextLink = <<>>
    /\ pageToken = <<>>
    /\ environ = [PATH |-> <<>>]
    /\ args = <<>>
    /\ configFile = [exists |-> FALSE]
    /\ stdout = <<>>
    /\ server \in Servers
    /\ agent = [token |-> <<>>, fetched |-> <<>>]
    /\ batch = NoBatch

\* C22: against a server that holds a finite sequence of message pages linked
\* by nextLink, the script that feeds each nextPageToken back as --page-token
\* until the token is empty terminates, having fetched every page exactly
\* once, in the server's order: what it has fetched is always the first pages
\* of the server, a turn is left only while a page is left, and when it stops
\* it has them all.
C22_WorkflowFetchesEveryPage ==
    /\ Len(agent.fetched) <= Len(server)
    /\ \A i \in 1..Len(agent.fetched) : agent.fetched[i] = PageReply(server, i)
    /\ pc = "idle" => Len(agent.fetched) < Len(server)
    /\ pc = "finished" => Len(agent.fetched) = Len(server)

(***************************************************************************)
(* Feeding a token back: a list operation has returned a page whose        *)
(* nextLink is nextLink, and the caller calls the same operation again     *)
(* with PageToken set to the NextPageToken of that page.                   *)
(***************************************************************************)
\* The page whose continuation is link.
PageWith(link) == [kind |-> "ok", value |-> <<>>, nextLink |-> link]

NextPage(name, o, token, target) ==
    /\ token # <<>>
    /\ pc' = "sent"
    /\ op' = name
    /\ opts' = [o EXCEPT !.PageToken = token]
    /\ pageToken' = token
    /\ request' = [sent |-> TRUE, method |-> "GET", target |-> target]
    /\ requests' = requests + 1
    /\ UNCHANGED <<reply, response, aggr, nextLink, cli>>

ListMessagesNextPage ==
    /\ pc = "idle"
    /\ \E o \in {x \in ListMessagesOptionsSet : ~x.isNil /\ x.PageToken = <<>>} :
        LET token == ListMessagesResponse(PageWith(nextLink)).NextPageToken
        IN  NextPage("ListMessagesWithPagination", o, token,
                     ListMessagesTarget([o EXCEPT !.PageToken = token]))

CalendarViewNextPage ==
    /\ pc = "idle"
    /\ \E o \in {x \in CalendarViewOptionsSet :
                    ~CalendarViewInvalid(x) /\ x.PageToken = <<>>} :
        LET token == CalendarViewSingleResponse(PageWith(nextLink)).NextPageToken
        IN  NextPage("CalendarView", o, token,
                     CalendarViewTarget([o EXCEPT !.PageToken = token]))

ListEventsNextPage ==
    /\ pc = "idle"
    /\ \E o \in {x \in ListEventsOptionsSet : ~x.isNil /\ x.PageToken = <<>>} :
        LET token == ListEventsResponse(PageWith(nextLink)).NextPageToken
        IN  NextPage("ListEvents", o, token, ListEventsTarget([o EXCEPT !.PageToken = token]))

ListItemsNextPage ==
    /\ pc = "idle"
    /\ \E pathOrID \in PathOrIDs,
          o \in {x \in ListItemsOptionsSet : ~x.isNil /\ x.PageToken = <<>>} :
        LET token == ListItemsResponse(PageWith(nextLink)).NextPageToken
        IN  NextPage("ListItems", o, token,
                     ListItemsTarget(pathOrID, [o EXCEPT !.PageToken = token]))

InitFeedback ==
    /\ Idle
    /\ CliIdle
    /\ nextLink \in ReplyLinks
    /\ pageToken = <<>>

\* C23: for each of the four list operations, when the nextLink of a response
\* carried $skiptoken=t, the follow-up call with PageToken set to the returned
\* NextPageToken sends $skiptoken=t; when it carried only $skip=n, the
\* follow-up call sends $skip=n.
C23_TokenFedBackInKind ==
    (pc = "sent" /\ ~ParseURL(nextLink).err) =>
        LET link == ParseQuery(ParseURL(nextLink).RawQuery)
            q    == ReqQuery
        IN  /\ (Has(link, pSkiptoken) /\ Get(link, pSkiptoken) # <<>>) =>
                    (Has(q, pSkiptoken) /\ Get(q, pSkiptoken) = Get(link, pSkiptoken))
            /\ (~Has(link, pSkiptoken) /\ Has(link, pSkip) /\ Get(link, pSkip) # <<>>) =>
                    (Has(q, pSkip) /\ Get(q, pSkip) = Get(link, pSkip))

(***************************************************************************)
(* go365 config set: Load, overwrite the fields whose flag is not empty,   *)
(* Save. stdout is the output of the run.                                  *)
(***************************************************************************)
\* The values of --tenant-id and --client-id; the default of both is "".
ConfigSetFlags ==
    [tenantID : {<<>>, <<"t">>, <<"\"", "<">>, <<"xFF", "a">>}, clientID : {<<>>, <<"c", "2">>}]

\* A variant with a slip: the flags are assigned whether empty or not.
configSetFieldsAlways(config, flags) ==
    [isNil |-> FALSE, TenantID |-> flags.tenantID, ClientID |-> flags.clientID, Scopes |-> config.Scopes]

\* The fields of the loaded configuration after the two assignments.
configSetFields(config, flags) ==
    [isNil |-> FALSE,
     TenantID |-> IF flags.tenantID # <<>> THEN flags.tenantID ELSE config.TenantID,
     ClientID |-> IF flags.clientID # <<>> THEN flags.clientID ELSE config.ClientID,
     Scopes |-> config.Scopes]

configSetCmd ==
    /\ pc = "idle"
    /\ pc' = "done"
    /\ op' = "config set"
    /\ \E flags \in ConfigSetFlags, readable \in BOOLEAN, written \in {"all", "nothing", "part"} :
        LET loaded == LoadResult(configFile, readable)
            config == configSetFields(loaded, flags)
        IN  /\ opts' = [isNil |-> FALSE, tenantID |-> flags.tenantID, clientID |-> flags.clientID]
            /\ IF loaded.kind = "error"
               THEN /\ response' = [kind |-> "error", err |-> "failed to load config"]
                    /\ stdout' = <<>>
                    /\ UNCHANGED configFile
               ELSE IF written # "all"
               THEN /\ response' = [kind |-> "error", err |-> "failed to save config"]
                    /\ configFile' = IF written = "part" THEN [exists |-> TRUE, valid |-> FALSE]
                                     ELSE configFile
                    /\ stdout' = <<>>
               ELSE /\ response' = [kind |-> "ok"]
                    /\ configFile' = [exists |-> TRUE, valid |-> TRUE, doc |-> MarshalConfig(config),
                                      written |-> config]
                    /\ stdout' = <<"Configuration saved successfully!", "\n">>
    /\ UNCHANGED <<request, reply, aggr, nextLink, pageToken, requests, environ, args, server, agent,
                 batch>>

\* The step is a run of config set.
ConfigSetRun == pc = "idle" /\ op' = "config set"

\* What a Load that can read the file returns before and after the step.
StoredBefore == LoadResult(configFile, TRUE)

StoredAfter == LoadResult(configFile', TRUE)

\* The file cannot be loaded: it exists and does not hold a JSON document.
Unloadable == configFile.exists /\ ~configFile.valid

\* C30 as stated: after a successful config set TenantID (ClientID) is the
\* flag's value when the flag is not empty and the stored value otherwise,
\* and Scopes are the stored ones; a file that cannot be loaded makes the
\* command return an error.
C30_ConfigSetChangesFlaggedFields ==
    [][ConfigSetRun =>
        /\ response'.kind = "ok" =>
            /\ StoredAfter.kind = "ok"
            /\ StoredAfter.TenantID = (IF opts'.tenantID # <<>> THEN opts'.tenantID
                                       ELSE StoredBefore.TenantID)
            /\ StoredAfter.ClientID = (IF opts'.clientID # <<>> THEN opts'.clientID
                                       ELSE StoredBefore.ClientID)
            /\ StoredAfter.Scopes = StoredBefore.Scopes
        /\ Unloadable => response'.kind = "error"]_vars

\* C30, amended: after a successful config set TenantID (ClientID) is the
\* flag's value with every byte that is not valid UTF-8 replaced by U+FFFD
\* when the flag is not empty, and the stored value otherwise; Scopes are the
\* ones Load returned before; the command succeeds only when the load and
\* the save both did, and when it fails at the load the file is untouched.
C30_ConfigSetChangesFlaggedFieldsUTF8 ==
    [][ConfigSetRun =>
        /\ response'.kind = "ok" =>
            /\ StoredAfter.kind = "ok"
            /\ StoredAfter.TenantID = (IF opts'.tenantID # <<>> THEN ToValidUTF8(opts'.tenantID)
                                       ELSE StoredBefore.TenantID)
            /\ StoredAfter.ClientID = (IF opts'.clientID # <<>> THEN ToValidUTF8(opts'.clientID)
                                       ELSE StoredBefore.ClientID)
            /\ StoredAfter.Scopes = StoredBefore.Scopes
            /\ stdout' = <<"Configuration saved successfully!", "\n">>
        /\ Unloadable => (response'.kind = "error" /\ configFile' = configFile)
        /\ response'.kind = "error" => (stdout' = <<>> /\ (configFile' # configFile => ~configFile'.valid))]_vars

\* config set with --client-id alone has succeeded on a file that stores a
\* tenant ID.
C30_Witness ==
    /\ pc = "done"
    /\ op = "config set"
    /\ response.kind = "ok"
    /\ opts.tenantID = <<>>
    /\ opts.clientID # <<>>
    /\ LoadResult(configFile, TRUE).TenantID # <<>>
    /\ LoadResult(configFile, TRUE).ClientID = opts.clientID

(***************************************************************************)
(* calendar respond: the command selects the events (one positional ID,    *)
(* --ids, or --all through ListEvents), then calls RespondToEvent for each *)
(* of them in turn.                                                        *)
(***************************************************************************)
MaxIdsLen == 3

IdsChars == {"a", "b", ",", " "}

\* The values of --ids.
IdsStrings == StrsUpTo(IdsChars, MaxIdsLen)

RespondFlags ==
    [all : {FALSE}, ids : IdsStrings, message : {<<>>, <<"m">>}]
    \cup [all : {TRUE}, ids : {<<>>, <<"a">>}, message : {<<>>, <<"m">>}]

\* The positional arguments of calendar respond.
RespondArgs ==
    {<<>>, <<<<"accept">>>>, <<<<"maybe">>>>, <<<<"a">>, <<"decline">>>>, <<<<"a">>, <<"tentative">>>>,
     <<<<>>, <<"accept">>>>, <<<<"a">>, <<"accept">>, <<"b">>>>}

PendingEvents == {[ID |-> <<>>, CalendarID |-> <<>>], [ID |-> <<"a">>, CalendarID |-> <<>>],
                  [ID |-> <<"b">>, CalendarID |-> <<>>]}

\* The answers to the ListEvents request of --all.
PendingReplies ==
    {[kind |-> "error", err |-> [msg |-> "request failed"]], [kind |-> "badjson"]}
    \cup [kind : {"ok"}, value : StrsUpTo(PendingEvents, MaxItems),
          nextLink : {<<>>, SyntheticLinkWithCursorParam(<<"x">>)}]

\* What the HTTP layer does with the POST of one response.
RespondOutcomes ==
    {[kind |-> "do"], [kind |-> "status", status |-> 202, body |-> <<>>],
     [kind |-> "status", status |-> 404, body |-> <<"x">>]}

PendingFilter == <<"responseStatus/response eq 'notResponded' or responseStatus/response eq 'none'">>

\* strings.Split(s, ",")
RECURSIVE SplitComma(_)
SplitComma(s) ==
    IF ~Contains(s, ",") THEN <<s>>
    ELSE <<CutBefore(s, ",")>> \o SplitComma(CutAfter(s, ","))

RECURSIVE TrimLeft(_)
TrimLeft(s) == IF s # <<>> /\ Head(s) = " " THEN TrimLeft(Tail(s)) ELSE s

RECURSIVE TrimRight(_)
TrimRight(s) == IF s # <<>> /\ s[Len(s)] = " " THEN TrimRight(SubSeq(s, 1, Len(s) - 1)) ELSE s

TrimSpace(s) == TrimRight(TrimLeft(s))

\* The loop over the parts of --ids: each part is trimmed, the empty ones
\* are dropped.
RECURSIVE IdsOfParts(_)
IdsOfParts(parts) ==
    IF parts = <<>> THEN <<>>
    ELSE LET p == TrimSpace(Head(parts))
         IN  (IF p # <<>> THEN <<p>> ELSE <<>>) \o IdsOfParts(Tail(parts))

SelectError(msg, listed) == [kind |-> "error", err |-> msg, listed |-> listed]

Selected(ids, resp, listed) == [kind |-> "ok", eventIDs |-> ids, response |-> resp, listed |-> listed]

\* The selection of the event IDs and of the response type.
SelectEvents(flags, a, r) ==
    IF flags.all
    THEN IF Len(a) < 1 THEN SelectError("response type required", FALSE)
         ELSE LET resp == ListEventsResponse(r)
              IN  IF resp.kind = "error" THEN SelectError("failed to list pending events", TRUE)
                  ELSE Selected(IDsOf(resp.Items), a[1], TRUE)
    ELSE IF flags.ids # <<>>
    THEN IF Len(a) < 1 THEN SelectError("response type required", FALSE)
         ELSE Selected(IdsOfParts(SplitComma(flags.ids)), a[1], FALSE)
    ELSE IF Len(a) < 2 THEN SelectError("usage: calendar respond <event-id> <accept|decline|tentative>", FALSE)
         ELSE Selected(<<a[1]>>, a[2], FALSE)

validResponses ==
    (<<"accept">> :> <<"accept">>) @@ (<<"decline">> :> <<"decline">>)
    @@ (<<"tentative">> :> <<"tentativelyAccept">>)

\* Client.RespondToEvent: the call it was, whether it posted, and its error.
RespondToEvent(eventID, resp, message, o) ==
    LET call == [eventID |-> eventID, response |-> resp, message |-> message]
    IN  IF eventID = <<>>
        THEN call @@ [posted |-> FALSE, target |-> <<>>, failed |-> TRUE, err |-> "event ID is required"]
        ELSE IF resp \notin DOMAIN validResponses
        THEN call @@ [posted |-> FALSE, target |-> <<>>, failed |-> TRUE, err |-> "invalid response"]
        ELSE LET res == doJSONRequestResult(o)
             IN  call @@ [posted |-> TRUE,
                          target |-> <<"/", "me", "/", "events", "/">> \o eventID \o <<"/">>
                                     \o validResponses[resp],
                          failed |-> res.kind = "error",
                          err |-> IF res.kind = "error" THEN res.err.msg ELSE "nil"]

\* A variant with a slip: the loop over the events stops at the first
\* failure.
moreEventsUntilFailure(b) ==
    /\ Len(b.calls) < Len(b.eventIDs)
    /\ IF b.calls = <<>> THEN TRUE ELSE ~b.calls[Len(b.calls)].failed

\* The loop over the selected events has an event left.
moreEvents(b) == Len(b.calls) < Len(b.eventIDs)

\* The command returns before the loop: an argument count cobra rejects, no
\* authentication, a failed selection, or nothing selected.
RespondReturn(flags, a, r, result, out, listed) ==
    /\ pc' = "done"
    /\ response' = result
    /\ stdout' = out
    /\ batch' = NoBatch
    /\ IF listed
       THEN /\ request' = [sent |-> TRUE, method |-> "GET",
                           target |-> ListEventsTarget([isNil |-> FALSE, CalendarID |-> <<>>, Top |-> 0,
                                                        PageToken |-> <<>>, Filter |-> PendingFilter])]
            /\ reply' = r
            /\ requests' = 1
       ELSE UNCHANGED <<request, reply, requests>>

calendarRespondCmd ==
    /\ pc = "idle"
    /\ \E flags \in RespondFlags, a \in RespondArgs, ready \in BOOLEAN, r \in PendingReplies :
        /\ op' = "calendar respond"
        /\ opts' = [isNil |-> FALSE, flags |-> flags, args |-> a]
        /\ IF Len(a) < 1 \/ Len(a) > 2
           THEN RespondReturn(flags, a, r, [kind |-> "error", err |-> "accepts between 1 and 2 arg(s)"],
                              <<>>, FALSE)
           ELSE IF ~ready
           THEN RespondReturn(flags, a, r, NotReady.response, <<>>, FALSE)
           ELSE LET sel == SelectEvents(flags, a, r)
                IN  IF sel.kind = "error"
                    THEN RespondReturn(flags, a, r, [kind |-> "error", err |-> sel.err], <<>>, sel.listed)
                    ELSE IF sel.eventIDs = <<>>
                    THEN RespondReturn(flags, a, r, [kind |-> "ok"], <<"No events to respond to", "\n">>,
                                       sel.listed)
                    ELSE /\ pc' = "responding"
                         /\ batch' = [eventIDs |-> sel.eventIDs, response |-> sel.response, calls |-> <<>>]
                         /\ requests' = IF sel.listed THEN 1 ELSE 0
                         /\ reply' = IF sel.listed THEN r ELSE reply
                         /\ UNCHANGED <<request, response, stdout>>
        /\ UNCHANGED <<aggr, nextLink, pageToken, environ, args, configFile, server, agent>>

\* One turn of the loop: RespondToEvent for the next event, and the line the
\* command prints about it.
RespondToEventCall ==
    /\ pc = "responding"
    /\ moreEvents(batch)
    /\ \E o \in RespondOutcomes :
        LET eventID == batch.eventIDs[Len(batch.calls) + 1]
            call    == RespondToEvent(eventID, batch.response, opts.flags.message, o)
        IN  /\ batch' = [batch EXCEPT !.calls = Append(@, call)]
            /\ IF call.posted
               THEN /\ request' = [sent |-> TRUE, method |-> "POST", target |-> call.target]
                    /\ reply' = o
                    /\ requests' = requests + 1
               ELSE UNCHANGED <<request, reply, requests>>
            /\ stdout' = stdout \o (IF call.failed THEN <<"Failed to respond to ">> \o eventID
                                    ELSE <<"Responded '">> \o batch.response \o <<"' to event ">>
                                         \o eventID)
                                \o <<"\n">>
    /\ UNCHANGED <<pc, op, opts, response, aggr, nextLink, pageToken, environ, args, configFile, server,
                 agent>>

\* The loop is over: the command returns nil.
calendarRespondReturn ==
    /\ pc = "responding"
    /\ ~moreEvents(batch)
    /\ pc' = "done"
    /\ response' = [kind |-> "ok"]
    /\ UNCHANGED <<op, opts, request, reply, aggr, nextLink, pageToken, requests, cli>>

\* The process exits.
calendarRespondExit ==
    /\ pc = "done"
    /\ op = "calendar respond"
    /\ pc' = "idle"
    /\ op' = "none"
    /\ opts' = NilOptions
    /\ request' = [sent |-> FALSE]
    /\ reply' = [kind |-> "none"]
    /\ response' = [kind |-> "none"]
    /\ requests' = 0
    /\ stdout' = <<>>
    /\ batch' = NoBatch
    /\ UNCHANGED <<aggr, nextLink, pageToken, environ, args, configFile, server, agent>>

\* calendar respond has run its loop over a batch (--all or --ids).
BatchResponded ==
    /\ pc = "done"
    /\ op = "calendar respond"
    /\ batch.eventIDs # <<>>
    /\ opts.flags.all \/ opts.flags.ids # <<>>

\* C29: batch calendar respond (--all or --ids) calls RespondToEvent exactly
\* once for each selected event ID, in list order: the calls made so far are
\* always the first events of the list, each with the response type and the
\* message of the command line; a call with an empty ID or an invalid
\* response type posts nothing, every other call posts once; and when the
\* command has returned, every selected event has had its call, whatever
\* failed, and the command has returned success.
C29_RespondsToEverySelectedEvent ==
    (op = "calendar respond" /\ (opts.flags.all \/ opts.flags.ids # <<>>)) =>
        /\ Len(batch.calls) <= Len(batch.eventIDs)
        /\ \A i \in 1..Len(batch.calls) :
            /\ batch.calls[i].eventID = batch.eventIDs[i]
            /\ batch.calls[i].response = batch.response
            /\ batch.calls[i].message = opts.flags.message
            /\ batch.calls[i].posted <=>
                   (batch.eventIDs[i] # <<>>
                    /\ batch.response \in {<<"accept">>, <<"decline">>, <<"tentative">>})
            /\ ~batch.calls[i].posted => batch.calls[i].failed
        /\ (pc = "responding" \/ BatchResponded) =>
               requests = Cardinality({i \in 1..Len(batch.calls) : batch.calls[i].posted})
                          + (IF opts.flags.all THEN 1 ELSE 0)
        /\ BatchResponded =>
            /\ Len(batch.calls) = Len(batch.eventIDs)
            /\ response = [kind |-> "ok"]

\* A batch of two events whose first response failed and whose second was
\* posted and accepted.
C29_Witness ==
    /\ BatchResponded
    /\ Len(batch.calls) = 2
    /\ batch.calls[1].failed
    /\ batch.calls[2].posted
    /\ ~batch.calls[2].failed

InitPlugin ==
    /\ Idle
    /\ nextLink = <<>>
    /\ pageToken = <<>>
    /\ environ \in Environs
    /\ args \in ArgLists
    /\ configFile = [exists |-> FALSE]
    /\ stdout = <<>>
    /\ server = <<>>
    /\ agent = [token |-> <<>>, fetched |-> <<>>]
    /\ batch = NoBatch

Init ==
    /\ Idle
    /\ CliIdle
    /\ nextLink = <<>>
    /\ pageToken = <<>>

Next ==
    \/ ListMessagesWithPagination
    \/ ClientGet
    \/ ListMessagesWithPaginationReturn
    \/ CalendarView
    \/ calendarViewSingleReturn
    \/ ListCalendarsReturn
    \/ calendarViewAllCalendarsReturn
    \/ ListEvents
    \/ ListEventsReturn
    \/ ListItems
    \/ ListItemsReturn
    \/ GetMessage
    \/ GetMessageReturn
    \/ GetEvent
    \/ GetEventReturn
    \/ SendMail
    \/ SendMailReturn
    \/ Consume

Spec == Init /\ [][Next]_vars

NextClient ==
    \/ GetCall
    \/ PostCall
    \/ Consume

SpecClient == Init /\ [][NextClient]_vars

NextPlugin ==
    \/ main
    \/ ListPlugins
    \/ Consume

SpecPlugin == InitPlugin /\ [][NextPlugin]_vars

NextConfig ==
    \/ Save
    \/ Load
    \/ Consume
    \/ configSetCmd

SpecConfig == Init /\ [][NextConfig]_vars

NextOutput ==
    \/ FormatListResponseCall
    \/ PrintNextPageHintCall
    \/ Consume

SpecOutput == Init /\ [][NextOutput]_vars

NextCommands ==
    \/ mailListCmd
    \/ calendarListCmd
    \/ calendarEventsCmd
    \/ Exit

SpecCommands == Init /\ [][NextCommands]_vars

NextWorkflow == AgentMailList

SpecWorkflow == InitWorkflow /\ [][NextWorkflow]_vars

NextFeedback ==
    \/ ListMessagesNextPage
    \/ CalendarViewNextPage
    \/ ListEventsNextPage
    \/ ListItemsNextPage

SpecFeedback == InitFeedback /\ [][NextFeedback]_vars

NextRespond ==
    \/ calendarRespondCmd
    \/ RespondToEventCall
    \/ calendarRespondReturn
    \/ calendarRespondExit

SpecRespond == Init /\ [][NextRespond]_vars

====
